---------------------------- MODULE Spec2Model ----------------------------
(***************************************************************************)
(* Verification model of the globulario/utility package: the TypeManager   *)
(* registry (types.go), its lazily constructed singleton, and the          *)
(* reflective object materializer (dynamic_reflect.go).                    *)
(*                                                                         *)
(* Three specifications share the variables below:                         *)
(*   SpecReg   concurrent callers of one TypeManager, at the granularity   *)
(*             of lock acquisition, map access and lock release;           *)
(*   SpecOnce  concurrent first calls of getTypeManager (sync.Once);       *)
(*   SpecMat   single-threaded calls of InitializeStructure on documents.  *)
(***************************************************************************)
EXTENDS Integers, Sequences, FiniteSets

(***************************************************************************)
(* Bounds of the model.                                                    *)
(***************************************************************************)
\* registry operations started in one behaviour of SpecReg
MaxOps == 3
\* calls of getTypeManager in one behaviour of SpecOnce
MaxCalls == 4

\* goroutines calling into the registry
Procs == {1, 2, 3}
\* "no goroutine"
NoProc == 0

\* names under which types are registered, and the type descriptors
TypeNames == {"pkg.T", "pkg.U"}
TypeIds == {"T", "U"}
\* names under which functions are registered, and the callables
FuncNames == {"f"}
FuncIds == {"fn1", "fn2"}

VARIABLES
    \* ---- TypeManager (types.go:10-14) ----
    typeRegistry,      \* map[string]reflect.Type: a function on the present keys
    functionRegistry,  \* map[string]interface{}
    muW,               \* RWMutex: the goroutine holding the writer mutex, or NoProc
    muPending,         \* RWMutex: a writer has announced itself (readers must wait)
    muReaders,         \* RWMutex: the goroutines holding the read lock
    \* ---- callers of the registry ----
    pc,                \* each goroutine's position
    op,                \* each goroutine's current call
    result,            \* each goroutine's return value
    opsStarted,        \* calls started so far
    lastWrite,         \* per registry key, the last write that took effect
    seen,              \* per reader, the writes its key has held since the call began
    atLock,            \* per reader, what the registry held when it got the lock
    slices,            \* heap of the []string slices allocated by ListTypes/ListFuncs
    returned,          \* the slices handed back to callers, with the names they must hold
    \* ---- singleton (types.go:102-113) ----
    onceDone,          \* sync.Once: done flag
    onceM,             \* sync.Once: holder of the mutex m, or NoProc
    typeManager,       \* the package variable: 0 (nil) or the index of a manager
    managers,          \* heap of the TypeManager objects constructed
    opc,               \* each goroutine's position in getTypeManager
    got,               \* the manager each goroutine was handed (0: none yet)
    calls,             \* calls of getTypeManager so far
    regd,              \* names registered through any handle
    \* ---- a call of InitializeStructure (dynamic_reflect.go:120) ----
    matPhase,          \* "idle", or "done" once a call has returned or panicked
    matDoc,            \* the document passed in
    matCb,             \* whether a setEntity callback was supplied
    matOrd,            \* the order in which the call's map iterations visit keys
    matOut,            \* what the call produced: value, error, panic
    matLog,            \* the arguments setEntity was called with, in order
    matRegBefore,      \* the type registry when the call began
    matThen,           \* what a later step on the instance produced (round trip, mutation)
    \* ---- a call of CallFunction or CallMethod (dynamic_reflect.go:428, 480) ----
    callPhase,         \* "idle", or "done" once a call has returned or panicked
    callReq,           \* the call made: function name or instance and method, params
    callOut,           \* what the call produced: results, error, panic
    invoked,           \* the invocations of underlying functions, with their arguments
    callDeleted,       \* the function names deleted after having been registered
    \* ---- a call of a pure function (InitializeArray, number.go) ----
    pureOp,            \* the function applied, or "none"
    pureIn,            \* its argument
    pureOut,           \* its result, or that it panicked
    \* ---- the package-level registry functions (dynamic_reflect.go:38-77) ----
    pkgLast,           \* per name, the type most recently passed to RegisterType
    pkgGot,            \* the last lookup by GetTypeOf or GetInstanceOf and its result
    \* ---- a call of RunCmd (proc.go:152-204) ----
    cpc,               \* position of the goroutine running RunCmd
    rpc,               \* position of the goroutine running ReadOutput
    ppc,               \* position of the printer goroutine
    outCh,             \* the lines buffered in outCh
    outClosed,         \* how many times outCh has been closed
    donePrint,         \* whether donePrint has been closed
    waitCh,            \* the values sent on the wait channel, in order
    pipe,              \* the command's stdout: lines written and not yet read
    procLeft,          \* how many more lines the command may write
    procExited,        \* whether the command has exited, and how
    pipeClosed,        \* whether cmd.Wait has closed the read end of the pipe
    sentLines,         \* the lines ReadOutput has sent on outCh
    printedLines,      \* the lines the printer has received
    \* ---- goroutines calling the package functions concurrently ----
    where,             \* per goroutine, the place in the code it is at
    doing,             \* per goroutine, the TypeManager method it is in
    retTo,             \* per goroutine, the places its pending calls return to
    found,             \* per goroutine, the ok of its last lookup, until it is used
    callsMade          \* calls started so far

regVars == <<typeRegistry, functionRegistry, muW, muPending, muReaders,
             pc, op, result, opsStarted, lastWrite, seen, atLock, slices, returned>>
onceVars == <<onceDone, onceM, typeManager, managers, opc, got, calls, regd>>
matVars == <<matPhase, matDoc, matCb, matOrd, matOut, matLog, matRegBefore, matThen>>
\* the registry variables a single-threaded caller of the default manager leaves alone
regRest == <<functionRegistry, muW, muPending, muReaders,
             pc, op, result, opsStarted, lastWrite, seen, atLock, slices, returned>>
callVars == <<callPhase, callReq, callOut, invoked, callDeleted>>
pureVars == <<pureOp, pureIn, pureOut>>
pkgVars == <<pkgLast, pkgGot>>
cmdVars == <<cpc, rpc, ppc, outCh, outClosed, donePrint, waitCh, pipe, procLeft,
             procExited, pipeClosed, sentLines, printedLines>>
liveVars == <<where, doing, retTo, found, callsMade>>
extVars == <<pkgVars, cmdVars, liveVars>>
\* the registry variables a single-threaded caller of RegisterFunction leaves alone
regRestF == <<typeRegistry, muW, muPending, muReaders,
              pc, op, result, opsStarted, lastWrite, seen, atLock, slices, returned>>
vars == <<regVars, onceVars, matVars, callVars, pureVars, extVars>>

(***************************************************************************)
(* Go maps.  A map is a function whose domain is the set of present keys.  *)
(***************************************************************************)
EmptyMap == [k \in {} |-> "nil"]

\* (mutant of MapAssign) an assignment that keeps an entry already present
MapAssignIfAbsent(m, k, v) == [x \in (DOMAIN m) \cup {k} |-> IF x \in DOMAIN m THEN m[x] ELSE v]

\* m[k] = v
MapAssign(m, k, v) == [x \in (DOMAIN m) \cup {k} |-> IF x = k THEN v ELSE m[x]]

\* delete(m, k)
MapDelete(m, k) == [x \in (DOMAIN m) \ {k} |-> m[x]]

\* v, ok := m[k]
MapRead(m, k) ==
    IF k \in DOMAIN m THEN [v |-> m[k], ok |-> TRUE, ref |-> 0]
    ELSE [v |-> "nil", ok |-> FALSE, ref |-> 0]

\* what a map read overlapping a write of the same map can yield (a data race)
Torn == [v |-> "torn", ok |-> TRUE, ref |-> 0]

NoResult == [v |-> "none", ok |-> FALSE, ref |-> 0]
NoOp == [kind |-> "none", name |-> "", d |-> ""]

WriteKinds == {"RegisterType", "RegisterFunc", "DeleteType", "DeleteFunc"}
ReadKinds == {"GetType", "GetFunc", "ListTypes", "ListFuncs"}

RegOf(kind) == IF kind \in {"RegisterType", "DeleteType", "GetType", "ListTypes"}
               THEN "type" ELSE "func"

\* every call a goroutine can make
Calls ==
    [kind : {"RegisterType"}, name : TypeNames, d : TypeIds]
    \cup [kind : {"GetType", "DeleteType"}, name : TypeNames, d : {""}]
    \cup [kind : {"RegisterFunc"}, name : FuncNames, d : FuncIds]
    \cup [kind : {"GetFunc", "DeleteFunc"}, name : FuncNames, d : {""}]
    \cup [kind : {"ListTypes", "ListFuncs"}, name : {""}, d : {""}]

\* the keys of the two registries
RegKeys == ({"type"} \X TypeNames) \cup ({"func"} \X FuncNames)

\* the writes recorded in lastWrite
NoWrite == [w |-> "none", d |-> ""]
Registered(d) == [w |-> "register", d |-> d]
Deleted == [w |-> "delete", d |-> ""]

\* what a lookup must return after write lw was the last one on its key
Expected(lw) ==
    IF lw.w = "register" THEN [v |-> lw.d, ok |-> TRUE, ref |-> 0]
    ELSE [v |-> "nil", ok |-> FALSE, ref |-> 0]

\* the names registry reg must hold according to lastWrite
NamesOf(lw, reg) == {k[2] : k \in {x \in RegKeys : x[1] = reg /\ lw[x].w = "register"}}

NoLock == [lw |-> NoWrite, names |-> {}]

(***************************************************************************)
(* sync.RWMutex as the registry uses it.                                   *)
(***************************************************************************)
\* mu.Lock(), first half: take the writer mutex and announce the writer
LockAnnounce(p) ==
    /\ muW = NoProc
    /\ muW' = p
    /\ muPending' = TRUE
    /\ UNCHANGED muReaders

\* (mutant of LockDrained) a writer that does not wait for the readers
LockNeverWaits == TRUE

\* mu.Lock(), second half: wait until the readers have drained
LockDrained == muReaders = {}

\* mu.Unlock()
MuUnlock(p) ==
    /\ muW = p
    /\ muW' = NoProc
    /\ muPending' = FALSE
    /\ UNCHANGED muReaders

\* (mutant of MuRLock) a read lock that ignores a pending or active writer
MuRLockIgnoresWriter(p) ==
    /\ muReaders' = muReaders \cup {p}
    /\ UNCHANGED <<muW, muPending>>

\* mu.RLock(): blocks while a writer is pending or holds the lock
MuRLock(p) ==
    /\ ~muPending
    /\ muReaders' = muReaders \cup {p}
    /\ UNCHANGED <<muW, muPending>>

\* (mutant of MuRUnlock) a reader that returns without releasing the lock
MuRUnlockKeepsLock(p) == UNCHANGED <<muW, muPending, muReaders>>

\* mu.RUnlock()
MuRUnlock(p) ==
    /\ muReaders' = muReaders \ {p}
    /\ UNCHANGED <<muW, muPending>>

(***************************************************************************)
(* Initial state: NewTypeManager() (types.go:17-22), no call in progress,  *)
(* the package variable typeManager still nil.                             *)
(***************************************************************************)
InitReg ==
    /\ typeRegistry = EmptyMap
    /\ functionRegistry = EmptyMap
    /\ muW = NoProc
    /\ muPending = FALSE
    /\ muReaders = {}
    /\ pc = [p \in Procs |-> "idle"]
    /\ op = [p \in Procs |-> NoOp]
    /\ result = [p \in Procs |-> NoResult]
    /\ opsStarted = 0
    /\ lastWrite = [k \in RegKeys |-> NoWrite]
    /\ seen = [p \in Procs |-> {}]
    /\ atLock = [p \in Procs |-> NoLock]
    /\ slices = <<>>
    /\ returned = {}

InitOnce ==
    /\ onceDone = 0
    /\ onceM = NoProc
    /\ typeManager = 0
    /\ managers = <<>>
    /\ opc = [p \in Procs |-> "idle"]
    /\ got = [p \in Procs |-> 0]
    /\ calls = 0
    /\ regd = {}

(***************************************************************************)
(* SpecReg: the TypeManager's methods, one action per step of a method.    *)
(***************************************************************************)
\* the registry key of goroutine p's call
KeyOf(p) == <<RegOf(op[p].kind), op[p].name>>

\* a goroutine calls one of the eight methods
Call(p, c) ==
    /\ pc[p] = "idle"
    /\ opsStarted < MaxOps
    /\ opsStarted' = opsStarted + 1
    /\ op' = [op EXCEPT ![p] = c]
    /\ pc' = [pc EXCEPT ![p] = IF c.kind \in WriteKinds THEN "Lock" ELSE "RLock"]
    /\ seen' = [seen EXCEPT ![p] = IF c.kind \in {"GetType", "GetFunc"}
                                   THEN {lastWrite[<<RegOf(c.kind), c.name>>]}
                                   ELSE {}]
    /\ UNCHANGED <<typeRegistry, functionRegistry, muW, muPending, muReaders,
                   result, lastWrite, atLock, slices, returned>>

\* tm.mu.Lock(): the writer takes the writer mutex and announces itself
Lock(p) ==
    /\ pc[p] = "Lock"
    /\ LockAnnounce(p)
    /\ pc' = [pc EXCEPT ![p] = "LockWait"]
    /\ UNCHANGED <<typeRegistry, functionRegistry, op, result, opsStarted,
                   lastWrite, seen, atLock, slices, returned>>

\* tm.mu.Lock() returns once the active readers are gone
LockAcquire(p) ==
    /\ pc[p] = "LockWait"
    /\ LockDrained
    /\ pc' = [pc EXCEPT ![p] = "store"]
    /\ UNCHANGED <<typeRegistry, functionRegistry, muW, muPending, muReaders,
                   op, result, opsStarted, lastWrite, seen, atLock, slices, returned>>

\* the write of goroutine p takes effect: lastWrite and the readers' windows
Effect(p, w) ==
    /\ lastWrite' = [lastWrite EXCEPT ![KeyOf(p)] = w]
    /\ seen' = [q \in Procs |->
                  IF q # p /\ op[q].kind \in {"GetType", "GetFunc"} /\ KeyOf(q) = KeyOf(p)
                  THEN seen[q] \cup {w} ELSE seen[q]]

\* tm.typeRegistry[name] = t
RegisterType(p) ==
    /\ pc[p] = "store"
    /\ op[p].kind = "RegisterType"
    /\ typeRegistry' = MapAssign(typeRegistry, op[p].name, op[p].d)
    /\ Effect(p, Registered(op[p].d))
    /\ pc' = [pc EXCEPT ![p] = "Unlock"]
    /\ UNCHANGED <<functionRegistry, muW, muPending, muReaders, op, result,
                   opsStarted, atLock, slices, returned>>

\* tm.functionRegistry[name] = fn
RegisterFunc(p) ==
    /\ pc[p] = "store"
    /\ op[p].kind = "RegisterFunc"
    /\ functionRegistry' = MapAssign(functionRegistry, op[p].name, op[p].d)
    /\ Effect(p, Registered(op[p].d))
    /\ pc' = [pc EXCEPT ![p] = "Unlock"]
    /\ UNCHANGED <<typeRegistry, muW, muPending, muReaders, op, result,
                   opsStarted, atLock, slices, returned>>

\* delete(tm.typeRegistry, name)
DeleteType(p) ==
    /\ pc[p] = "store"
    /\ op[p].kind = "DeleteType"
    /\ typeRegistry' = MapDelete(typeRegistry, op[p].name)
    /\ Effect(p, Deleted)
    /\ pc' = [pc EXCEPT ![p] = "Unlock"]
    /\ UNCHANGED <<functionRegistry, muW, muPending, muReaders, op, result,
                   opsStarted, atLock, slices, returned>>

\* delete(tm.functionRegistry, name)
DeleteFunc(p) ==
    /\ pc[p] = "store"
    /\ op[p].kind = "DeleteFunc"
    /\ functionRegistry' = MapDelete(functionRegistry, op[p].name)
    /\ Effect(p, Deleted)
    /\ pc' = [pc EXCEPT ![p] = "Unlock"]
    /\ UNCHANGED <<typeRegistry, muW, muPending, muReaders, op, result,
                   opsStarted, atLock, slices, returned>>

\* defer tm.mu.Unlock(), and the method returns
Unlock(p) ==
    /\ pc[p] = "Unlock"
    /\ MuUnlock(p)
    /\ pc' = [pc EXCEPT ![p] = "idle"]
    /\ op' = [op EXCEPT ![p] = NoOp]
    /\ UNCHANGED <<typeRegistry, functionRegistry, result, opsStarted,
                   lastWrite, seen, atLock, slices, returned>>

\* tm.mu.RLock(); atLock records what the registry holds at that moment
RLock(p) ==
    /\ pc[p] = "RLock"
    /\ MuRLock(p)
    /\ pc' = [pc EXCEPT ![p] = "read"]
    /\ atLock' = [atLock EXCEPT ![p] =
                    IF op[p].kind \in {"GetType", "GetFunc"}
                    THEN [lw |-> lastWrite[KeyOf(p)], names |-> {}]
                    ELSE [lw |-> NoWrite, names |-> NamesOf(lastWrite, RegOf(op[p].kind))]]
    /\ UNCHANGED <<typeRegistry, functionRegistry, op, result, opsStarted,
                   lastWrite, seen, slices, returned>>

\* a writer is inside a map assignment or delete of registry reg
Racing(p, reg) ==
    \E w \in Procs \ {p} : pc[w] = "store" /\ RegOf(op[w].kind) = reg

\* the outcomes of v, ok := m[k] by goroutine p
ReadOutcomes(p, reg, m, k) ==
    IF Racing(p, reg) THEN {MapRead(m, k), Torn} ELSE {MapRead(m, k)}

\* t, ok := tm.typeRegistry[name]
GetType(p) ==
    /\ pc[p] = "read"
    /\ op[p].kind = "GetType"
    /\ \E r \in ReadOutcomes(p, "type", typeRegistry, op[p].name) :
          result' = [result EXCEPT ![p] = r]
    /\ pc' = [pc EXCEPT ![p] = "RUnlock"]
    /\ UNCHANGED <<typeRegistry, functionRegistry, muW, muPending, muReaders,
                   op, opsStarted, lastWrite, seen, atLock, slices, returned>>

\* f, ok := tm.functionRegistry[name]
GetFunc(p) ==
    /\ pc[p] = "read"
    /\ op[p].kind = "GetFunc"
    /\ \E r \in ReadOutcomes(p, "func", functionRegistry, op[p].name) :
          result' = [result EXCEPT ![p] = r]
    /\ pc' = [pc EXCEPT ![p] = "RUnlock"]
    /\ UNCHANGED <<typeRegistry, functionRegistry, muW, muPending, muReaders,
                   op, opsStarted, lastWrite, seen, atLock, slices, returned>>

\* (mutant of MakeSlice) one buffer reused by every call
MakeSliceReused(heap) == 1

\* keys := make([]string, 0, len(m)): a fresh slice on the heap
MakeSlice(heap) == Len(heap) + 1

\* the elements of a sequence
Elems(q) == {q[i] : i \in 1..Len(q)}

\* ListTypes/ListFuncs up to the loop: allocate the result slice
ListAlloc(p, kind) ==
    /\ pc[p] = "read"
    /\ op[p].kind = kind
    /\ LET ref == MakeSlice(slices) IN
        /\ slices' = [i \in 1..Len(slices) + 1 |->
                        IF i = ref THEN <<>>
                        ELSE IF i <= Len(slices) THEN slices[i] ELSE <<>>]
        /\ result' = [result EXCEPT ![p] = [v |-> "slice", ok |-> TRUE, ref |-> ref]]
    /\ pc' = [pc EXCEPT ![p] = "loop"]
    /\ UNCHANGED <<typeRegistry, functionRegistry, muW, muPending, muReaders,
                   op, opsStarted, lastWrite, seen, atLock, returned>>

\* for k := range m { keys = append(keys, k) }: one iteration, in the map's
\* (unspecified) iteration order, or the end of the loop
ListLoop(p, kind, m) ==
    /\ pc[p] = "loop"
    /\ op[p].kind = kind
    /\ LET ref == result[p].ref
           left == (DOMAIN m) \ Elems(slices[ref]) IN
        \/ /\ left # {}
           /\ \E k \in left : slices' = [slices EXCEPT ![ref] = Append(@, k)]
           /\ pc' = pc
        \/ /\ left = {}
           /\ slices' = slices
           /\ pc' = [pc EXCEPT ![p] = "RUnlock"]
    /\ UNCHANGED <<typeRegistry, functionRegistry, muW, muPending, muReaders,
                   op, result, opsStarted, lastWrite, seen, atLock, returned>>

ListTypes(p) == ListAlloc(p, "ListTypes")
ListTypesLoop(p) == ListLoop(p, "ListTypes", typeRegistry)
ListFuncs(p) == ListAlloc(p, "ListFuncs")
ListFuncsLoop(p) == ListLoop(p, "ListFuncs", functionRegistry)

\* defer tm.mu.RUnlock(), and the method returns result[p]; a list is handed
\* to the caller
RUnlock(p) ==
    /\ pc[p] = "RUnlock"
    /\ MuRUnlock(p)
    /\ pc' = [pc EXCEPT ![p] = "idle"]
    /\ returned' = IF op[p].kind \in {"ListTypes", "ListFuncs"}
                   THEN returned \cup {[ref |-> result[p].ref,
                                        reg |-> RegOf(op[p].kind),
                                        names |-> atLock[p].names]}
                   ELSE returned
    /\ op' = [op EXCEPT ![p] = NoOp]
    /\ result' = [result EXCEPT ![p] = NoResult]
    /\ seen' = [seen EXCEPT ![p] = {}]
    /\ atLock' = [atLock EXCEPT ![p] = NoLock]
    /\ UNCHANGED <<typeRegistry, functionRegistry, opsStarted, lastWrite, slices>>

NextReg ==
    \/ \E p \in Procs, c \in Calls : Call(p, c) /\ UNCHANGED <<onceVars, matVars, callVars, pureVars, extVars>>
    \/ \E p \in Procs : Lock(p) /\ UNCHANGED <<onceVars, matVars, callVars, pureVars, extVars>>
    \/ \E p \in Procs : LockAcquire(p) /\ UNCHANGED <<onceVars, matVars, callVars, pureVars, extVars>>
    \/ \E p \in Procs : RegisterType(p) /\ UNCHANGED <<onceVars, matVars, callVars, pureVars, extVars>>
    \/ \E p \in Procs : RegisterFunc(p) /\ UNCHANGED <<onceVars, matVars, callVars, pureVars, extVars>>
    \/ \E p \in Procs : DeleteType(p) /\ UNCHANGED <<onceVars, matVars, callVars, pureVars, extVars>>
    \/ \E p \in Procs : DeleteFunc(p) /\ UNCHANGED <<onceVars, matVars, callVars, pureVars, extVars>>
    \/ \E p \in Procs : Unlock(p) /\ UNCHANGED <<onceVars, matVars, callVars, pureVars, extVars>>
    \/ \E p \in Procs : RLock(p) /\ UNCHANGED <<onceVars, matVars, callVars, pureVars, extVars>>
    \/ \E p \in Procs : GetType(p) /\ UNCHANGED <<onceVars, matVars, callVars, pureVars, extVars>>
    \/ \E p \in Procs : GetFunc(p) /\ UNCHANGED <<onceVars, matVars, callVars, pureVars, extVars>>
    \/ \E p \in Procs : ListTypes(p) /\ UNCHANGED <<onceVars, matVars, callVars, pureVars, extVars>>
    \/ \E p \in Procs : ListTypesLoop(p) /\ UNCHANGED <<onceVars, matVars, callVars, pureVars, extVars>>
    \/ \E p \in Procs : ListFuncs(p) /\ UNCHANGED <<onceVars, matVars, callVars, pureVars, extVars>>
    \/ \E p \in Procs : ListFuncsLoop(p) /\ UNCHANGED <<onceVars, matVars, callVars, pureVars, extVars>>
    \/ \E p \in Procs : RUnlock(p) /\ UNCHANGED <<onceVars, matVars, callVars, pureVars, extVars>>

(***************************************************************************)
(* Dynamic values.  A Go value (an interface{} holding it, or the          *)
(* reflect.Value wrapping it) is a record tagged with its kind.            *)
(***************************************************************************)
\* the zero reflect.Value
InvalidV == [k |-> "invalid"]
\* nil: a nil interface, pointer, map or slice
NilV == [k |-> "nil"]
StrV(s) == [k |-> "string", s |-> s]
IntV(i) == [k |-> "int", i |-> i]
Uint8V(i) == [k |-> "uint8", i |-> i]
BoolV(b) == [k |-> "bool", b |-> b]
\* map[string]interface{}: m is a function on the present keys
MapV(m) == [k |-> "map", m |-> m]
\* a slice with element type et
SliceV(et, q) == [k |-> "slice", et |-> et, q |-> q]
\* *t: the struct allocated as number id, with fields f
PtrV(id, t, f) == [k |-> "ptr", id |-> id, t |-> t, f |-> f]
\* a struct value of type t
StructV(t, f) == [k |-> "struct", t |-> t, f |-> f]

IsValid(v) == v.k # "invalid"

\* the sized integer kinds besides int and uint8, and the float kinds
SignedKinds == {"int8", "int16", "int32", "int64"}
UnsignedKinds == {"uint", "uint16", "uint32", "uint64"}
FloatKinds == {"float32", "float64"}

\* reflect.Type
StringT == [kind |-> "string"]
IntT == [kind |-> "int"]
Uint8T == [kind |-> "uint8"]
BoolT == [kind |-> "bool"]
IfaceT == [kind |-> "interface"]
MapT == [kind |-> "map"]
PtrT(t) == [kind |-> "ptr", elem |-> t]
StructT(t) == [kind |-> "struct", elem |-> t]
SliceT(et) == [kind |-> "slice", elem |-> et]

\* reflect.TypeOf(v) for a non-nil v
TypeOfV(v) ==
    CASE v.k = "string" -> StringT
      [] v.k = "int" -> IntT
      [] v.k = "uint8" -> Uint8T
      [] v.k = "bool" -> BoolT
      [] v.k \in FloatKinds -> [kind |-> v.k]
      [] v.k = "map" -> MapT
      [] v.k = "slice" -> SliceT(v.et)
      [] v.k = "ptr" -> PtrT(v.t)
      [] v.k = "struct" -> StructT(v.t)

\* []uint8 / []byte
IsBytes(v) == v.k = "slice" /\ v.et = Uint8T

\* the struct types a caller registers: T refers to U by pointer, by value,
\* through sequences and through the reference field M_owner
Fields(t) ==
    IF t = "T" THEN
        [TYPENAME |-> StringT, UUID |-> StringT, M_owner |-> StringT,
         Name |-> StringT, Age |-> IntT, Flag |-> BoolT,
         Child |-> PtrT("U"), Part |-> StructT("U"),
         Items |-> SliceT(PtrT("U")), M_refs |-> SliceT(StringT),
         Any |-> IfaceT, Props |-> MapT, Data |-> SliceT(Uint8T)]
    ELSE
        [TYPENAME |-> StringT, UUID |-> StringT, Val |-> IntT]

\* t.FieldByName(name)
HasField(t, name) == name \in DOMAIN Fields(t)

\* reflect.Zero(ft)
RECURSIVE Zero(_)
Zero(ft) ==
    CASE ft.kind = "string" -> StrV("")
      [] ft.kind = "int" -> IntV(0)
      [] ft.kind = "uint8" -> Uint8V(0)
      [] ft.kind = "bool" -> BoolV(FALSE)
      [] ft.kind = "struct" ->
            StructV(ft.elem, [n \in DOMAIN Fields(ft.elem) |-> Zero(Fields(ft.elem)[n])])
      [] OTHER -> NilV

\* reflect.New(t).Elem(): every field at its zero value
ZeroFields(t) == [n \in DOMAIN Fields(t) |-> Zero(Fields(t)[n])]

\* whether Value.Set accepts a value of type vt for a destination of type ft
Assignable(vt, ft) == ft.kind = "interface" \/ vt = ft

(***************************************************************************)
(* Scalar coercion (number.go).  Strings are tokens; the functions on      *)
(* them are given on the strings the model uses.                           *)
(***************************************************************************)
\* strings.TrimSpace
TrimSpace(s) ==
    CASE s = " u-2 " -> "u-2"
      [] s = " " -> ""
      [] s = " pkg.U " -> "pkg.U"
      [] OTHER -> s

\* strconv.Atoi with the error dropped: 0 for a string that is no number
Atoi(s) ==
    CASE s = "42" -> 42
      [] s = "7" -> 7
      [] OTHER -> 0

Digit(d) ==
    CASE d = 0 -> "0" [] d = 1 -> "1" [] d = 2 -> "2" [] d = 3 -> "3" [] d = 4 -> "4"
      [] d = 5 -> "5" [] d = 6 -> "6" [] d = 7 -> "7" [] d = 8 -> "8" [] d = 9 -> "9"

\* strconv.Itoa
RECURSIVE Itoa(_)
Itoa(n) ==
    IF n < 0 THEN "-" \o Itoa(0 - n)
    ELSE IF n < 10 THEN Digit(n)
    ELSE Itoa(n \div 10) \o Digit(n % 10)

\* strconv.ParseBool with the error mapped to false
ParseBool(s) == s \in {"1", "t", "T", "TRUE", "true", "True"}

\* string(bytes): one character per byte
Chr(b) == CASE b = 104 -> "h" [] b = 105 -> "i" [] b = 32 -> " " [] OTHER -> "?"
RECURSIVE StringOfBytes(_)
StringOfBytes(q) ==
    IF q = <<>> THEN "" ELSE Chr(Head(q).i) \o StringOfBytes(Tail(q))

\* binary.BigEndian.Uint64 of the first eight bytes
RECURSIVE BigEndian(_, _)
BigEndian(q, n) ==
    IF n = 0 THEN 0 ELSE BigEndian(q, n - 1) * 256 + q[n].i

\* an integer of a sized kind
NumV(kind, i) == [k |-> kind, i |-> i]
\* a float, held in tenths: FloatV("float64", 39) is 3.9
FloatV(kind, t) == [k |-> kind, t |-> t]
\* a time.Time, held as its Unix seconds
TimeV(unix) == [k |-> "time", unix |-> unix]
\* values of kinds no conversion has a rule for: a channel, a map[int]string
ChanV == [k |-> "chan"]
MapIntV == [k |-> "mapint"]

\* []string
IsStrings(v) == v.k = "slice" /\ v.et = StringT

\* the elements of a []string joined by single spaces
RECURSIVE JoinSpace(_)
JoinSpace(q) ==
    IF q = <<>> THEN ""
    ELSE IF Len(q) = 1 THEN q[1].s
    ELSE q[1].s \o " " \o JoinSpace(Tail(q))

\* strconv.FormatFloat(f, 'f', -1, bits) of a float held in tenths
FormatFloat(t) ==
    IF t < 0 THEN "-" \o Itoa((0 - t) \div 10)
                  \o (IF (0 - t) % 10 = 0 THEN "" ELSE "." \o Digit((0 - t) % 10))
    ELSE Itoa(t \div 10) \o (IF t % 10 = 0 THEN "" ELSE "." \o Digit(t % 10))

\* strconv.ParseFloat with the error dropped, in tenths: 0 for a string that
\* is no number
ParseFloat(s) ==
    CASE s = "42" -> 420
      [] s = "7" -> 70
      [] s = "3.9" -> 39
      [] OTHER -> 0

\* (mutant of Trunc) a conversion that rounds toward minus infinity
TruncFloor(t) == t \div 10

\* int(f) of a float held in tenths: the fraction is dropped, toward zero
Trunc(t) == IF t < 0 THEN 0 - ((0 - t) \div 10) ELSE t \div 10

\* ToString panics (log.Panicln, or reflect.TypeOf(nil).Kind()) on these:
\* nil and the kinds without a case, uint and time.Time among them
ToStringPanics(v) ==
    \/ v.k \in {"nil", "invalid", "ptr", "nilptr", "struct", "uint", "time", "chan", "mapint"}
    \/ v.k = "slice" /\ ~IsBytes(v) /\ ~IsStrings(v)

\* ToString on the values it accepts
ToString(v) ==
    CASE v.k = "string" -> TrimSpace(v.s)
      [] v.k = "int" -> TrimSpace(Itoa(v.i))
      [] v.k \in SignedKinds \cup {"uint8", "uint16", "uint32", "uint64"} ->
            TrimSpace(Itoa(v.i))
      [] v.k \in FloatKinds -> TrimSpace(FormatFloat(v.t))
      [] v.k = "bool" -> IF v.b THEN "true" ELSE "false"
      [] v.k = "map" -> "{json}"
      [] IsStrings(v) -> TrimSpace(JoinSpace(v.q))
      [] OTHER -> TrimSpace(StringOfBytes(v.q))

\* ToInt panics on these: kinds without a case (every unsigned kind and
\* time.Time among them), and a byte slice shorter than eight bytes
ToIntPanics(v) ==
    \/ v.k \in {"invalid", "map", "ptr", "nilptr", "struct", "uint8", "time", "chan", "mapint"}
    \/ v.k \in UnsignedKinds
    \/ v.k = "slice" /\ ~IsBytes(v)
    \/ IsBytes(v) /\ Len(v.q) < 8

\* ToInt on the values it accepts
ToInt(v) ==
    CASE v.k = "nil" -> 0
      [] v.k = "string" -> Atoi(v.s)
      [] v.k = "int" -> v.i
      [] v.k \in SignedKinds -> v.i
      [] v.k \in FloatKinds -> Trunc(v.t)
      [] v.k = "bool" -> IF v.b THEN 1 ELSE 0
      [] OTHER -> BigEndian(v.q, 8)

\* ToBool panics on nil only (reflect.TypeOf(nil).Kind())
ToBoolPanics(v) == v.k \in {"nil", "invalid"}

\* ToBool: false for everything that is neither a bool nor a parsable string
ToBool(v) ==
    CASE v.k = "bool" -> v.b
      [] v.k = "string" -> ParseBool(v.s)
      [] OTHER -> FALSE

\* ToNumeric panics on nil and on every kind that is no string, signed
\* integer, float, bool or time.Time
ToNumericPanics(v) ==
    v.k \notin {"string", "int", "bool", "time"} \cup SignedKinds \cup FloatKinds

\* ToNumeric on the values it accepts, in tenths
ToNumeric(v) ==
    CASE v.k = "string" -> ParseFloat(v.s)
      [] v.k = "bool" -> IF v.b THEN 10 ELSE 0
      [] v.k = "time" -> v.unix * 10
      [] v.k \in FloatKinds -> v.t
      [] OTHER -> v.i * 10

\* the result of a step that can panic
Val(v) == [v |-> v, panic |-> FALSE]
Panicked == [v |-> InvalidV, panic |-> TRUE]

\* InitializeBaseTypeValue(t, value): the zero Value for nil and for the kinds
\* without a case (slice, map, ptr, struct, uint16, array)
InitializeBaseTypeValue(t, value) ==
    IF value = NilV THEN Val(InvalidV)
    ELSE IF t.kind = "interface" THEN Val(value)
    ELSE CASE t.kind = "string" ->
                IF ToStringPanics(value) THEN Panicked ELSE Val(StrV(ToString(value)))
           [] t.kind = "bool" -> Val(BoolV(ToBool(value)))
           [] t.kind = "int" ->
                IF ToIntPanics(value) THEN Panicked ELSE Val(IntV(ToInt(value)))
           [] t.kind = "uint8" ->
                IF ToIntPanics(value) THEN Panicked ELSE Val(Uint8V(ToInt(value) % 256))
           [] t.kind \in FloatKinds ->
                IF ToNumericPanics(value) THEN Panicked
                ELSE Val(FloatV(t.kind, ToNumeric(value)))
           [] OTHER -> Val(InvalidV)

(***************************************************************************)
(* Initial state.                                                          *)
(***************************************************************************)
NoOut == [v |-> InvalidV, err |-> FALSE, panic |-> FALSE]

InitMat ==
    /\ matPhase = "idle"
    /\ matDoc = EmptyMap
    /\ matCb = FALSE
    /\ matOrd = "asc"
    /\ matOut = NoOut
    /\ matLog = <<>>
    /\ matRegBefore = EmptyMap
    /\ matThen = NoOut

\* no call of CallFunction or CallMethod made yet
NoCall == [kind |-> "none"]
NoCallOut == [res |-> "nil", err |-> FALSE, panic |-> FALSE]

InitCall ==
    /\ callPhase = "idle"
    /\ callReq = NoCall
    /\ callOut = NoCallOut
    /\ invoked = <<>>
    /\ callDeleted = {}

InitPure ==
    /\ pureOp = "none"
    /\ pureIn = NilV
    /\ pureOut = [v |-> InvalidV, panic |-> FALSE]

\* no lookup made yet
NoLookup == [op |-> "none", name |-> "", v |-> NilV, last |-> "none"]

InitPkg ==
    /\ pkgLast = EmptyMap
    /\ pkgGot = NoLookup

\* RunCmd not yet called
InitCmd ==
    /\ cpc = "call"
    /\ rpc = "off"
    /\ ppc = "off"
    /\ outCh = <<>>
    /\ outClosed = 0
    /\ donePrint = FALSE
    /\ waitCh = <<>>
    /\ pipe = <<>>
    /\ procLeft = 0
    /\ procExited = "no"
    /\ pipeClosed = FALSE
    /\ sentLines = <<>>
    /\ printedLines = <<>>

InitLive ==
    /\ where = [p \in Procs |-> "idle"]
    /\ doing = [p \in Procs |-> "none"]
    /\ retTo = [p \in Procs |-> <<>>]
    /\ found = [p \in Procs |-> FALSE]
    /\ callsMade = 0

Init == InitReg /\ InitOnce /\ InitMat /\ InitCall /\ InitPure /\ InitPkg /\ InitCmd /\ InitLive

SpecReg == Init /\ [][NextReg]_vars


(***************************************************************************)
(* Properties of the registry (SpecReg).                                   *)
(***************************************************************************)
\* goroutines inside a write critical section and inside a read critical section
WritersInCS == {p \in Procs : pc[p] \in {"store", "Unlock"}}
ReadersInCS == {p \in Procs : pc[p] \in {"read", "loop", "RUnlock"}}

\* the type registry or the function registry
RegistryOf(reg) == IF reg = "type" THEN typeRegistry ELSE functionRegistry

\* C1: a GetType that is about to return holds a value its key held at some
\* moment between the call and the return (the value before a concurrent
\* RegisterType, or the descriptor it wrote), never an intermediate one.
C1_GetTypeAtomic ==
    \A p \in Procs :
        (pc[p] = "RUnlock" /\ op[p].kind = "GetType") =>
            /\ result[p] # Torn
            /\ result[p] \in {Expected(w) : w \in seen[p]}

\* C1 witness: a GetType returns the descriptor a RegisterType wrote while the
\* GetType call was in progress.
C1_Witness ==
    \E p \in Procs :
        /\ pc[p] = "RUnlock"
        /\ op[p].kind = "GetType"
        /\ Cardinality(seen[p]) >= 2
        /\ result[p].ok

\* C2: at most one writer is inside its critical section, and then no reader is.
C2_WriteExclusive ==
    /\ Cardinality(WritersInCS) <= 1
    /\ WritersInCS # {} => ReadersInCS = {}

\* C2 witness: two readers are inside their critical sections at the same time
\* while a writer waits.
C2_Witness ==
    /\ Cardinality(ReadersInCS) >= 2
    /\ \E p \in Procs : pc[p] \in {"Lock", "LockWait"}

\* C3: each registry holds, for every name, the descriptor of the last
\* Register of that name unless a Delete followed it, and a Get returns what
\* the registry held when it took the lock.
C3_LastWriteWins ==
    /\ \A k \in RegKeys : MapRead(RegistryOf(k[1]), k[2]) = Expected(lastWrite[k])
    /\ \A p \in Procs :
        (pc[p] = "RUnlock" /\ op[p].kind \in {"GetType", "GetFunc"}) =>
            result[p] = Expected(atLock[p].lw)

\* C3 witness: after three calls a GetType finds nothing because the last write
\* of its name was a DeleteType.
C3_Witness ==
    \E p \in Procs :
        /\ pc[p] = "RUnlock"
        /\ op[p].kind = "GetType"
        /\ opsStarted = 3
        /\ atLock[p].lw = Deleted
        /\ ~result[p].ok

\* C4: every list handed to a caller holds exactly the names registered when
\* the call held the lock, each once, whatever was registered or deleted since.
C4_SnapshotStable ==
    \A r \in returned :
        /\ Elems(slices[r.ref]) = r.names
        /\ Len(slices[r.ref]) = Cardinality(r.names)

\* C4 witness: a returned, non-empty list differs from what the registry holds now.
C4_Witness ==
    \E r \in returned :
        /\ r.names # {}
        /\ r.names # DOMAIN RegistryOf(r.reg)


(***************************************************************************)
(* SpecOnce: getTypeManager (types.go:108-113) called by several           *)
(* goroutines.  typeManagerOnce.Do(f) is sync.Once: a fast path on the     *)
(* done flag, then doSlow under the mutex m with a second look at done.    *)
(***************************************************************************)
\* a goroutine calls getTypeManager / DefaultTypeManager
getTypeManager(p) ==
    /\ opc[p] \in {"idle", "have"}
    /\ calls < MaxCalls
    /\ calls' = calls + 1
    /\ opc' = [opc EXCEPT ![p] = "Do"]
    /\ UNCHANGED <<onceDone, onceM, typeManager, managers, got, regd>>

\* (mutant of OnceDo) lazy construction guarded by the flag alone
OnceDoUnguarded(p) ==
    /\ opc[p] = "Do"
    /\ opc' = [opc EXCEPT ![p] = IF onceDone = 0 THEN "f" ELSE "return"]
    /\ UNCHANGED <<onceDone, onceM, typeManager, managers, got, calls, regd>>

\* typeManagerOnce.Do: the fast path
OnceDo(p) ==
    /\ opc[p] = "Do"
    /\ opc' = [opc EXCEPT ![p] = IF onceDone = 0 THEN "doSlowLock" ELSE "return"]
    /\ UNCHANGED <<onceDone, onceM, typeManager, managers, got, calls, regd>>

\* doSlow: o.m.Lock()
OnceLock(p) ==
    /\ opc[p] = "doSlowLock"
    /\ onceM = NoProc
    /\ onceM' = p
    /\ opc' = [opc EXCEPT ![p] = "doSlowCheck"]
    /\ UNCHANGED <<onceDone, typeManager, managers, got, calls, regd>>

\* doSlow: if o.done == 0 { f() }
OnceCheck(p) ==
    /\ opc[p] = "doSlowCheck"
    /\ opc' = [opc EXCEPT ![p] = IF onceDone = 0 THEN "f" ELSE "doSlowUnlock"]
    /\ UNCHANGED <<onceDone, onceM, typeManager, managers, got, calls, regd>>

\* f: typeManager = NewTypeManager(), a new manager with empty registries
NewTypeManager(p) ==
    /\ opc[p] = "f"
    /\ managers' = Append(managers, {})
    /\ typeManager' = Len(managers) + 1
    /\ opc' = [opc EXCEPT ![p] = "storeDone"]
    /\ UNCHANGED <<onceDone, onceM, got, calls, regd>>

\* doSlow: the deferred o.done.Store(1)
OnceStoreDone(p) ==
    /\ opc[p] = "storeDone"
    /\ onceDone' = 1
    /\ opc' = [opc EXCEPT ![p] = "doSlowUnlock"]
    /\ UNCHANGED <<onceM, typeManager, managers, got, calls, regd>>

\* doSlow: the deferred o.m.Unlock()
OnceUnlock(p) ==
    /\ opc[p] = "doSlowUnlock"
    /\ onceM' = IF onceM = p THEN NoProc ELSE onceM
    /\ opc' = [opc EXCEPT ![p] = "return"]
    /\ UNCHANGED <<onceDone, typeManager, managers, got, calls, regd>>

\* return typeManager
ReturnManager(p) ==
    /\ opc[p] = "return"
    /\ got' = [got EXCEPT ![p] = typeManager]
    /\ opc' = [opc EXCEPT ![p] = "have"]
    /\ UNCHANGED <<onceDone, onceM, typeManager, managers, calls, regd>>

\* the caller registers a type through the manager it was handed
RegisterVia(p, n) ==
    /\ opc[p] = "have"
    /\ got[p] # 0
    /\ n \notin managers[got[p]]
    /\ managers' = [managers EXCEPT ![got[p]] = @ \cup {n}]
    /\ regd' = regd \cup {n}
    /\ UNCHANGED <<onceDone, onceM, typeManager, opc, got, calls>>

NextOnce ==
    \/ \E p \in Procs : getTypeManager(p) /\ UNCHANGED <<regVars, matVars, callVars, pureVars, extVars>>
    \/ \E p \in Procs : OnceDo(p) /\ UNCHANGED <<regVars, matVars, callVars, pureVars, extVars>>
    \/ \E p \in Procs : OnceLock(p) /\ UNCHANGED <<regVars, matVars, callVars, pureVars, extVars>>
    \/ \E p \in Procs : OnceCheck(p) /\ UNCHANGED <<regVars, matVars, callVars, pureVars, extVars>>
    \/ \E p \in Procs : NewTypeManager(p) /\ UNCHANGED <<regVars, matVars, callVars, pureVars, extVars>>
    \/ \E p \in Procs : OnceStoreDone(p) /\ UNCHANGED <<regVars, matVars, callVars, pureVars, extVars>>
    \/ \E p \in Procs : OnceUnlock(p) /\ UNCHANGED <<regVars, matVars, callVars, pureVars, extVars>>
    \/ \E p \in Procs : ReturnManager(p) /\ UNCHANGED <<regVars, matVars, callVars, pureVars, extVars>>
    \/ \E p \in Procs, n \in TypeNames : RegisterVia(p, n) /\ UNCHANGED <<regVars, matVars, callVars, pureVars, extVars>>

SpecOnce == Init /\ [][NextOnce]_vars

\* C5: one manager is ever constructed; every call that has returned handed out
\* that manager, never nil, and every name registered through any handle is in
\* the manager behind every handle.
C5_Singleton ==
    /\ Len(managers) <= 1
    /\ \A p \in Procs :
        opc[p] = "have" =>
            /\ got[p] = 1
            /\ regd \subseteq managers[got[p]]

\* C5 witness: one goroutine already holds the manager while another, which
\* passed the fast path before the flag was set, is in doSlow and finds it set.
C5_Witness ==
    \E p, q \in Procs :
        /\ opc[p] = "have"
        /\ got[p] = 1
        /\ opc[q] = "doSlowCheck"
        /\ onceDone = 1


(***************************************************************************)
(* The materializer (dynamic_reflect.go:108-361).  The functions thread    *)
(* st = [log, next, panic]: the setEntity calls made so far, the number    *)
(* of the next struct reflect.New allocates, and whether the call has      *)
(* panicked.  env = [reg, cb, ord] is the type registry, whether setEntity *)
(* is non-nil, and the order in which a map iteration visits keys.         *)
(***************************************************************************)
Panic(st) == [st EXCEPT !.panic = TRUE]

\* results: a field table, a slice under construction, a value
FS(f, st) == [f |-> f, st |-> st]
QS(q, st) == [q |-> q, st |-> st]

\* if setEntity != nil && value.IsValid() { setEntity(value.Interface()) }
CallSetEntity(env, st, v) ==
    IF env.cb /\ IsValid(v) THEN [st EXCEPT !.log = Append(@, v)] ELSE st

\* the field and key names of the model, in one order of map iteration
KeyOrder == <<"TYPENAME", "UUID", "M_owner", "Name", "Age", "Flag", "Child", "Part",
              "Items", "M_refs", "Any", "Props", "Data", "Val", "Zzz">>

Reverse(q) == [i \in 1..Len(q) |-> q[Len(q) + 1 - i]]

\* for name, raw := range data: the keys in the order the iteration visits them
KeysInOrder(data, ord) ==
    LET InDoc(k) == k \in DOMAIN data
    IN SelectSeq(IF ord = "asc" THEN KeyOrder ELSE Reverse(KeyOrder), InDoc)

\* strings.HasPrefix(fieldName, "M_") on the field names of the model
HasPrefixM(fieldName) == fieldName \in {"M_owner", "M_refs"}

\* v.Elem().FieldByName(fieldName).Set(x): panics unless x is valid and
\* assignable to the field of the struct type t
SetField(t, f, fieldName, x, st) ==
    IF IsValid(x) /\ x # NilV /\ Assignable(TypeOfV(x), Fields(t)[fieldName])
    THEN FS([f EXCEPT ![fieldName] = x], st)
    ELSE FS(f, Panic(st))

\* slice.Index(i).Set(x) for a slice with element type et
SetIndex(q, et, i, x, st) ==
    IF IsValid(x) /\ x # NilV /\ Assignable(TypeOfV(x), et)
    THEN QS([q EXCEPT ![i] = x], st)
    ELSE QS(q, Panic(st))

\* (mutant of TypeNameOf) a lookup that yields the empty name for a missing key
TypeNameOrEmpty(data) ==
    IF "TYPENAME" \in DOMAIN data
    THEN [has |-> TRUE, v |-> data["TYPENAME"]]
    ELSE [has |-> TRUE, v |-> StrV("")]

\* tnAny, hasTN := data["TYPENAME"]
TypeNameOf(data) ==
    IF "TYPENAME" \in DOMAIN data
    THEN [has |-> TRUE, v |-> data["TYPENAME"]]
    ELSE [has |-> FALSE, v |-> NilV]

\* (mutant of PassThrough) a pass-through that hands back a fresh empty map
PassThroughEmpty(data, st) == [v |-> MapV(EmptyMap), err |-> FALSE, st |-> st]

\* return reflect.ValueOf(data), nil: the raw map for an unregistered type
PassThrough(data, st) == [v |-> MapV(data), err |-> FALSE, st |-> st]

\* the setEntity call that follows the construction of a value, unless the
\* construction panicked
Entity(env, r) ==
    [v |-> r.v, st |-> IF r.st.panic THEN r.st ELSE CallSetEntity(env, r.st, r.v)]

\* v := reflect.New(t) ... return v: the pointer to the struct filled by the loop
NewInstance(id, t, r) == [v |-> PtrV(id, t, r.f), st |-> r.st]

\* return value, nil
NoErr(r) == [v |-> r.v, err |-> FALSE, st |-> r.st]

\* reflect.MakeSlice(ft, n, n)
MakeSliceOf(ft, n) == [i \in 1..n |-> Zero(ft.elem)]

\* slice field: v.Elem().FieldByName(fieldName).Set(slice), r the filled slice
SetSlice(t, f, fieldName, fieldType, r) ==
    IF r.st.panic THEN FS(f, r.st)
    ELSE SetField(t, f, fieldName, SliceV(fieldType.elem, r.q), r.st)

\* struct field: Set(fv.Elem()) if fv is valid; fv.Elem() panics on the raw map
\* of an unregistered type
SetStruct(t, f, fieldName, r) ==
    IF r.st.panic \/ ~IsValid(r.v) THEN FS(f, r.st)
    ELSE IF r.v.k # "ptr" THEN FS(f, Panic(r.st))
    ELSE SetField(t, f, fieldName, StructV(r.v.t, r.v.f), r.st)

\* pointer field: Set(fv) if fv is valid
SetPtr(t, f, fieldName, r) ==
    IF r.st.panic \/ ~IsValid(r.v) THEN FS(f, r.st)
    ELSE SetField(t, f, fieldName, r.v, r.st)

\* map field: Set(fv) if the nested call succeeded, else Set(fieldValue)
SetMap(t, f, fieldName, fieldValue, r) ==
    IF r.st.panic THEN FS(f, r.st)
    ELSE IF ~r.err /\ IsValid(r.v) THEN SetField(t, f, fieldName, r.v, r.st)
    ELSE SetField(t, f, fieldName, fieldValue, r.st)

\* string field given a map: the UUID of the nested instance if it has a
\* string UUID field, else Set(fieldValue); fv.Elem() panics on the raw map
\* of an unregistered type
SetStringFromMap(t, f, fieldName, fieldValue, r) ==
    IF r.st.panic THEN FS(f, r.st)
    ELSE IF ~r.err /\ IsValid(r.v)
         THEN IF r.v.k # "ptr" THEN FS(f, Panic(r.st))
              ELSE IF HasField(r.v.t, "UUID") /\ Fields(r.v.t)["UUID"].kind = "string"
                   THEN SetField(t, f, fieldName, r.v.f["UUID"], r.st)
                   ELSE SetField(t, f, fieldName, fieldValue, r.st)
         ELSE SetField(t, f, fieldName, fieldValue, r.st)

\* scalar field: Set(fv) if InitializeBaseTypeValue returned a valid fv
SetBase(t, f, fieldName, b, st) ==
    IF b.panic THEN FS(f, Panic(st))
    ELSE IF IsValid(b.v) THEN SetField(t, f, fieldName, b.v, st)
    ELSE FS(f, st)

\* element with TYPENAME: the UUID string under an M_ field, else the value
\* built; r is that value after its setEntity call
SetTyped(q, et, i, fieldName, m, r) ==
    IF r.st.panic THEN QS(q, r.st)
    ELSE IF HasPrefixM(fieldName)
    THEN IF "UUID" \in DOMAIN m
         THEN IF ToStringPanics(m["UUID"]) THEN QS(q, Panic(r.st))
              ELSE SetIndex(q, et, i, StrV(ToString(m["UUID"])), r.st)
         ELSE QS(q, r.st)
    ELSE SetIndex(q, et, i, r.v, r.st)

\* slice element: slice.Index(i).Set(slice_), r2 the filled slice_, which was
\* made with type fieldType
SetNested(q, et, i, fieldType, r2) ==
    IF r2.st.panic THEN QS(q, r2.st)
    ELSE SetIndex(q, et, i, SliceV(fieldType.elem, r2.q), r2.st)

\* scalar element: slice.Index(i).Set(fv) if fv is valid
SetElemBase(q, et, i, b, st) ==
    IF b.panic THEN QS(q, Panic(st))
    ELSE IF IsValid(b.v) THEN SetIndex(q, et, i, b.v, st)
    ELSE QS(q, st)

RECURSIVE initializeStructureValue(_, _, _, _)
RECURSIVE FieldLoop(_, _, _, _, _)
RECURSIVE initializeStructureFieldValue(_, _, _, _, _, _, _)
RECURSIVE InitializeStructureFieldArrayValue(_, _, _, _, _, _, _)
RECURSIVE InitializeStructure(_, _, _)

\* one iteration of the loop of initializeStructureValue: a nil value and a
\* key that names no field are skipped
FieldStep(env, t, fs, name, raw) ==
    IF raw = NilV \/ ~HasField(t, name) THEN fs
    ELSE initializeStructureFieldValue(env, t, fs.f, name, Fields(t)[name], raw, fs.st)

\* (mutant of FieldLoop) a loop that stops at the first key naming no field
RECURSIVE FieldLoopStopAtUnknown(_, _, _, _, _)
FieldLoopStopAtUnknown(env, t, fs, keys, data) ==
    IF keys = <<>> \/ fs.st.panic \/ ~HasField(t, Head(keys)) THEN fs
    ELSE FieldLoopStopAtUnknown(env, t, FieldStep(env, t, fs, Head(keys), data[Head(keys)]),
                                Tail(keys), data)

\* the loop of initializeStructureValue over the document's keys; fs is the
\* struct under construction
FieldLoop(env, t, fs, keys, data) ==
    IF keys = <<>> \/ fs.st.panic THEN fs
    ELSE FieldLoop(env, t, FieldStep(env, t, fs, Head(keys), data[Head(keys)]),
                   Tail(keys), data)

\* initializeStructureValue: the raw map for an unregistered type, else a new
\* *T with the fields the document names
initializeStructureValue(env, typeName, data, st) ==
    IF typeName \notin DOMAIN env.reg THEN [v |-> MapV(data), st |-> st]
    ELSE NewInstance(st.next, env.reg[typeName],
                     FieldLoop(env, env.reg[typeName],
                               FS(ZeroFields(env.reg[typeName]), [st EXCEPT !.next = @ + 1]),
                               KeysInOrder(data, env.ord), data))

\* MakeInstance
MakeInstance(env, typeName, data, st) ==
    Entity(env, initializeStructureValue(env, typeName, data, st))

\* InitializeStructure
InitializeStructure(env, data, st) ==
    LET tn == TypeNameOf(data) IN
    IF ~tn.has THEN [v |-> InvalidV, err |-> TRUE, st |-> st]
    ELSE IF ToStringPanics(tn.v) THEN [v |-> InvalidV, err |-> FALSE, st |-> Panic(st)]
    ELSE IF ToString(tn.v) \in DOMAIN env.reg
         THEN NoErr(Entity(env, MakeInstance(env, ToString(tn.v), data, st)))
         ELSE PassThrough(data, st)

\* initializeStructureFieldValue: set field fieldName of the struct (type t,
\* fields f) from fieldValue, dispatching on the kind of fieldType
initializeStructureFieldValue(env, t, f, fieldName, fieldType, fieldValue, st) ==
    CASE fieldType.kind = "slice" ->
            \* []byte: InitializeBaseTypeValue has no case for a slice type and
            \* returns the zero Value, on which fv.Bytes() panics
            IF IsBytes(fieldValue) THEN FS(f, Panic(st))
            ELSE IF fieldValue.k = "slice"
            THEN SetSlice(t, f, fieldName, fieldType,
                          InitializeStructureFieldArrayValue(
                              env, QS(MakeSliceOf(fieldType, Len(fieldValue.q)), st),
                              fieldType, fieldName, fieldType, fieldValue, 1))
            ELSE FS(f, st)
      [] fieldType.kind = "struct" ->
            IF fieldValue.k = "map"
            THEN SetStruct(t, f, fieldName, InitializeStructure(env, fieldValue.m, st))
            ELSE FS(f, st)
      [] fieldType.kind = "ptr" ->
            IF fieldValue.k = "map"
            THEN SetPtr(t, f, fieldName, InitializeStructure(env, fieldValue.m, st))
            ELSE FS(f, st)
      [] fieldType.kind = "interface" ->
            initializeStructureFieldValue(env, t, f, fieldName, TypeOfV(fieldValue),
                                          fieldValue, st)
      [] fieldType.kind = "map" ->
            IF fieldValue.k = "map"
            THEN SetMap(t, f, fieldName, fieldValue,
                        InitializeStructure(env, fieldValue.m, st))
            ELSE FS(f, st)
      [] fieldType.kind = "string" ->
            IF fieldValue.k = "map"
            THEN SetStringFromMap(t, f, fieldName, fieldValue,
                                  InitializeStructure(env, fieldValue.m, st))
            ELSE SetBase(t, f, fieldName, InitializeBaseTypeValue(fieldType, fieldValue), st)
      [] OTHER ->
            SetBase(t, f, fieldName, InitializeBaseTypeValue(fieldType, fieldValue), st)

\* one iteration of the loop of InitializeStructureFieldArrayValue, on element
\* v_ at index i of a slice with element type et
ElemStep(env, qs, et, fieldName, fieldType, v_, i) ==
    IF v_ = NilV THEN qs
    ELSE IF v_.k = "map" THEN
        IF "TYPENAME" \in DOMAIN v_.m
        THEN \* tn.(string) panics unless the value is a string
             IF v_.m["TYPENAME"].k # "string" THEN QS(qs.q, Panic(qs.st))
             ELSE SetTyped(qs.q, et, i, fieldName, v_.m,
                           Entity(env, initializeStructureValue(
                                           env, v_.m["TYPENAME"].s, v_.m, qs.st)))
        ELSE SetIndex(qs.q, et, i, v_, qs.st)
    ELSE IF v_.k = "slice" THEN
        IF fieldType.kind # "slice" THEN QS(qs.q, Panic(qs.st))
        ELSE SetNested(qs.q, et, i, fieldType,
                       InitializeStructureFieldArrayValue(
                           env, QS(MakeSliceOf(fieldType, Len(v_.q)), qs.st),
                           fieldType, fieldName, TypeOfV(v_), v_, 1))
    ELSE SetElemBase(qs.q, et, i, InitializeBaseTypeValue(et, v_), qs.st)

\* InitializeStructureFieldArrayValue from index i on: qs is the slice being
\* filled, of type sliceType; values is the source sequence
InitializeStructureFieldArrayValue(env, qs, sliceType, fieldName, fieldType, values, i) ==
    IF i > Len(values.q) \/ qs.st.panic THEN qs
    ELSE InitializeStructureFieldArrayValue(
             env, ElemStep(env, qs, sliceType.elem, fieldName, fieldType, values.q[i], i),
             sliceType, fieldName, fieldType, values, i + 1)

(***************************************************************************)
(* The documents handed to InitializeStructure.                            *)
(***************************************************************************)
\* longest sequence value in a document
MaxLen == 2

\* marks a key the document does not have
AbsentV == [k |-> "absent"]
DocOf(f) == [k \in {x \in DOMAIN f : f[x] # AbsentV} |-> f[k]]

Scalars == {StrV("u-1"), StrV(" u-2 "), StrV("42"), IntV(7), BoolV(TRUE)}

\* nested documents: typed (registered or not, padded or not) and untyped
SubDoc(tn, u) == DocOf([TYPENAME |-> tn, UUID |-> u])
SubDocs ==
    {SubDoc(tn, u) : tn \in {AbsentV, StrV("pkg.U"), StrV("pkg.X"), StrV(" pkg.U ")},
                     u \in {AbsentV, StrV("u-1"), StrV(" u-2 ")}}

SeqElems ==
    {NilV, IntV(7),
     MapV(SubDoc(StrV("pkg.U"), StrV("u-1"))),
     MapV(SubDoc(StrV("pkg.X"), StrV(" u-2 "))),
     MapV(SubDoc(AbsentV, StrV("u-1"))),
     SliceV(IfaceT, <<StrV("u-1")>>)}

\* []interface{} values of up to MaxLen elements
Seqs == {SliceV(IfaceT, q) : q \in UNION {[1..n -> SeqElems] : n \in 0..MaxLen}}

\* a []byte value
Bytes == SliceV(Uint8T, <<Uint8V(104), Uint8V(105)>>)

FieldVals == Scalars \cup {NilV, Bytes} \cup {MapV(d) : d \in SubDocs} \cup Seqs

TopTypeNames == {AbsentV, NilV, StrV("pkg.T"), StrV("pkg.U"), StrV("pkg.X")}

Keys1 == {KeyOrder[i] : i \in 1..Len(KeyOrder)} \ {"TYPENAME"}

\* an optional further key of the document
Extras ==
    {<<"Zzz", AbsentV>>, <<"Zzz", IntV(7)>>,
     <<"Child", MapV(SubDoc(StrV("pkg.U"), StrV("u-1")))>>,
     <<"M_owner", MapV(SubDoc(StrV("pkg.U"), StrV(" u-2 ")))>>}

TopDoc(tn, k, v, x) ==
    DocOf(MapAssign(MapAssign([TYPENAME |-> tn], x[1], x[2]), k, v))

TopDocs ==
    {TopDoc(tn, k, v, x) : tn \in TopTypeNames, k \in Keys1, v \in FieldVals, x \in Extras}

(***************************************************************************)
(* SpecMat: a caller registers and deletes types through the package and   *)
(* then materializes one document.                                         *)
(***************************************************************************)
\* the registered name of a type: last element of the package path "." name
FqName(t) == "pkg." \o t

\* the state a call starts from
NewSt == [log |-> <<>>, next |-> 1, panic |-> FALSE]

\* RegisterType(typedNil), for a type of the package: registers the type under
\* its qualified name unless the name is taken
PkgRegisterType(t) ==
    /\ matPhase = "idle"
    /\ typeRegistry' = IF MapRead(typeRegistry, FqName(t)).ok THEN typeRegistry
                       ELSE MapAssign(typeRegistry, FqName(t), t)
    /\ UNCHANGED <<regRest, onceVars, matVars, callVars, pureVars, extVars>>

\* DefaultTypeManager().DeleteType(name)
PkgDeleteType(name) ==
    /\ matPhase = "idle"
    /\ typeRegistry' = MapDelete(typeRegistry, name)
    /\ UNCHANGED <<regRest, onceVars, matVars, callVars, pureVars, extVars>>

\* InitializeStructure(doc, setEntity), run to its return or its panic
CallInitializeStructure(doc, cb, ord) ==
    /\ matPhase = "idle"
    /\ LET r == InitializeStructure([reg |-> typeRegistry, cb |-> cb, ord |-> ord],
                                    doc, NewSt)
       IN /\ matOut' = [v |-> IF r.st.panic THEN InvalidV ELSE r.v,
                        err |-> r.err, panic |-> r.st.panic]
          /\ matLog' = r.st.log
    /\ matPhase' = "done"
    /\ matDoc' = doc
    /\ matCb' = cb
    /\ matOrd' = ord
    /\ matRegBefore' = typeRegistry
    /\ matThen' = NoOut
    /\ UNCHANGED <<regVars, onceVars, callVars, pureVars, extVars>>

NextMat ==
    \/ \E t \in TypeIds : PkgRegisterType(t)
    \/ \E n \in TypeNames : PkgDeleteType(n)
    \/ /\ matPhase = "idle"
       /\ \E doc \in TopDocs, cb \in BOOLEAN, ord \in {"asc", "desc"} :
             CallInitializeStructure(doc, cb, ord)

SpecMat == Init /\ [][NextMat]_vars

(***************************************************************************)
(* Properties of a call of InitializeStructure.                            *)
(***************************************************************************)
\* the call has returned or panicked
MatDone == matPhase = "done"

\* the document names, by a string, a type the registry held when the call began
NamesRegistered ==
    /\ "TYPENAME" \in DOMAIN matDoc
    /\ matDoc["TYPENAME"].k = "string"
    /\ ToString(matDoc["TYPENAME"]) \in DOMAIN matRegBefore

\* the document names, by a string, a type the registry did not hold
NamesUnregistered ==
    /\ "TYPENAME" \in DOMAIN matDoc
    /\ matDoc["TYPENAME"].k = "string"
    /\ ToString(matDoc["TYPENAME"]) \notin DOMAIN matRegBefore

\* the positions of the log at which the instance allocated as number id was passed
LogPositions(id) == {i \in 1..Len(matLog) : matLog[i].k = "ptr" /\ matLog[i].id = id}

\* the instances passed to the callback
LoggedIds == {matLog[i].id : i \in {j \in 1..Len(matLog) : matLog[j].k = "ptr"}}

\* C6: a call with a document that has no TYPENAME key returns an error and the
\* invalid value, does not panic, never invokes the callback, and leaves the
\* type registry as it was
C6_MissingTypeName ==
    (MatDone /\ "TYPENAME" \notin DOMAIN matDoc) =>
        /\ matOut = [v |-> InvalidV, err |-> TRUE, panic |-> FALSE]
        /\ matLog = <<>>
        /\ typeRegistry = matRegBefore

C6_Witness ==
    /\ MatDone /\ "TYPENAME" \notin DOMAIN matDoc
    /\ matCb
    /\ "Child" \in DOMAIN matDoc /\ "Items" \in DOMAIN matDoc
    /\ DOMAIN matRegBefore = TypeNames
    /\ matOut.err

\* C7: a call with a document whose TYPENAME names an unregistered type returns
\* the document itself (same keys, same values) and no error, does not panic,
\* and never invokes the callback
C7_UnregisteredPassThrough ==
    (MatDone /\ NamesUnregistered) =>
        /\ matOut = [v |-> MapV(matDoc), err |-> FALSE, panic |-> FALSE]
        /\ matLog = <<>>

C7_Witness ==
    /\ MatDone /\ NamesUnregistered
    /\ matCb
    /\ matDoc["TYPENAME"] = StrV("pkg.X")
    /\ "Child" \in DOMAIN matDoc /\ "Items" \in DOMAIN matDoc
    /\ "pkg.U" \in DOMAIN matRegBefore
    /\ matOut.v = MapV(matDoc)

\* C8 (as claimed): with a callback and a document of a registered type, a call
\* that returns passes the outermost instance to the callback exactly once and
\* last, and passes no instance twice
C8_CallbackOncePerInstance ==
    (MatDone /\ matCb /\ NamesRegistered /\ ~matOut.panic) =>
        /\ matOut.v.k = "ptr"
        /\ Cardinality(LogPositions(matOut.v.id)) = 1
        /\ matLog[Len(matLog)] = matOut.v
        /\ \A id \in LoggedIds : Cardinality(LogPositions(id)) = 1

\* the document of C9: {TYPENAME: T, M_owner: {TYPENAME: U, UUID: u}}
C9_Document ==
    /\ DOMAIN matDoc = {"TYPENAME", "M_owner"}
    /\ matDoc["TYPENAME"] = StrV("pkg.T")
    /\ matDoc["M_owner"].k = "map"
    /\ DOMAIN matDoc["M_owner"].m = {"TYPENAME", "UUID"}
    /\ matDoc["M_owner"].m["TYPENAME"] = StrV("pkg.U")
    /\ matDoc["M_owner"].m["UUID"].k = "string"
    /\ matRegBefore = [n \in TypeNames |-> IF n = "pkg.T" THEN "T" ELSE "U"]

\* C9 (as claimed): materializing {TYPENAME: T, M_owner: {TYPENAME: U, UUID: u}}
\* yields a T whose M_owner is the string u, and the callback is invoked once
\* for the nested U and once for T
C9_ReferenceCollapse ==
    (MatDone /\ matCb /\ C9_Document) =>
        /\ ~matOut.panic /\ ~matOut.err
        /\ matOut.v.k = "ptr" /\ matOut.v.t = "T"
        /\ matOut.v.f["M_owner"] = matDoc["M_owner"].m["UUID"]
        /\ Len(matLog) = 2
        /\ matLog[1].k = "ptr" /\ matLog[1].t = "U"
        /\ matLog[2] = matOut.v

\* the document without the keys that name no field of the type t
Stripped(t) == [k \in DOMAIN matDoc \cap (DOMAIN Fields(t) \cup {"TYPENAME"}) |-> matDoc[k]]

\* the call repeated on another document
Again(doc) ==
    InitializeStructure([reg |-> matRegBefore, cb |-> matCb, ord |-> matOrd], doc, NewSt)

\* C10: for a document of a registered type, every declared field the document
\* does not have is at its zero value in the instance, and the keys that name
\* no field change nothing: the document without them has the same outcome
C10_AbsentZeroUnknownIgnored ==
    (MatDone /\ NamesRegistered) =>
        LET t == matRegBefore[ToString(matDoc["TYPENAME"])]
            r == Again(Stripped(t))
        IN /\ ~matOut.panic =>
                /\ matOut.v.k = "ptr" /\ matOut.v.t = t
                /\ \A n \in DOMAIN Fields(t) \ DOMAIN matDoc :
                       matOut.v.f[n] = Zero(Fields(t)[n])
           /\ r.st.panic = matOut.panic
           /\ r.err = matOut.err
           /\ ~matOut.panic => r.v = matOut.v
           /\ r.st.log = matLog

C10_Witness ==
    /\ MatDone /\ NamesRegistered /\ ~matOut.panic
    /\ matDoc["TYPENAME"] = StrV("pkg.T")
    /\ matOrd = "desc"
    /\ "Zzz" \in DOMAIN matDoc /\ matDoc["Zzz"] = IntV(7)
    /\ "Child" \in DOMAIN matDoc
    /\ matOut.v.f["Child"] # NilV
    /\ matOut.v.f["Name"] = StrV("")
    /\ matOut.v.f["Part"] = Zero(StructT("U"))

\* C11 (as claimed): a call with a document of a registered type never panics:
\* it returns an instance and no error, whatever the kinds of the fields and
\* the shapes of the values supplied for them
C11_NeverAborts ==
    (MatDone /\ NamesRegistered) =>
        /\ ~matOut.panic
        /\ ~matOut.err
        /\ matOut.v.k = "ptr"

(***************************************************************************)
(* Dynamic invocation (dynamic_reflect.go:413-524).  A callable is known   *)
(* by its signature; invoking it is recorded in the variable invoked.      *)
(***************************************************************************)
\* most arguments passed in one call
MaxArgs == 3

\* the functions a caller registers, and the methods of the struct types
Callables == {"fn1", "fn2", "fn3"}

\* reflect.Type of a callable: fn1 is func(int, string), fn2 is
\* func(string, ...int), fn3 is func(*U, ...interface{}); the methods of *T
\* are Do(int) and Sum(string, ...int)
Sig(fn) ==
    CASE fn = "fn1" -> [in |-> <<IntT, StringT>>, variadic |-> FALSE]
      [] fn = "fn2" -> [in |-> <<StringT, SliceT(IntT)>>, variadic |-> TRUE]
      [] fn = "fn3" -> [in |-> <<PtrT("U"), SliceT(IfaceT)>>, variadic |-> TRUE]
      [] fn = "T.Do" -> [in |-> <<IntT>>, variadic |-> FALSE]
      [] fn = "T.Sum" -> [in |-> <<StringT, SliceT(IntT)>>, variadic |-> TRUE]

\* the exported methods of a pointer to a struct of type t
MethodSet(t) == IF t = "T" THEN [Do |-> "T.Do", Sum |-> "T.Sum"] ELSE EmptyMap

\* a nil pointer of type *t held in an interface
NilPtrV(t) == [k |-> "nilptr", t |-> t]

\* the arguments of the model: nil, an int, a string, a bool
ArgVals == {NilV, IntV(104), StrV("a"), BoolV(TRUE)}
ParamLists == UNION {[1..n -> ArgVals] : n \in 0..MaxArgs}
FuncCallNames == {"f", "g"}
Instances == {NilV, PtrV(1, "T", ZeroFields("T")), PtrV(1, "U", ZeroFields("U")), NilPtrV("T")}
MethodNames == {"Do", "do", "Sum"}

\* v.CanConvert(target), for v an int, a string or a bool and target an int, a
\* string, a pointer or interface{}
CanConvert(vt, target) ==
    \/ vt = target
    \/ target.kind = "interface"
    \/ vt.kind = "int" /\ target.kind = "string"

\* v.Convert(target) where CanConvert holds: an int becomes the string of
\* that code point
Convert(v, target) ==
    IF v.k = "int" /\ target.kind = "string" THEN StrV(Chr(v.i)) ELSE v

\* a reflect.Value passed to Call: its type and its value
Arg(t, v) == [t |-> t, v |-> v]

\* the body of the loop building in[i] from params[i] (i counted from 1)
BindArg(ft, i, p) ==
    LET fixed == ~ft.variadic \/ i < Len(ft.in)
        target == IF fixed THEN ft.in[i] ELSE ft.in[Len(ft.in)].elem
    IN IF p = NilV
       THEN IF fixed THEN Arg(ft.in[i], Zero(ft.in[i])) ELSE Arg(IfaceT, NilV)
       ELSE IF TypeOfV(p) # target /\ CanConvert(TypeOfV(p), target)
            THEN Arg(target, Convert(p, target))
            ELSE Arg(TypeOfV(p), p)

\* reflect.Value.Call panics on too few or too many arguments and on an
\* argument whose type is not assignable to its parameter
ReflectCallPanics(ft, in) ==
    LET n == Len(ft.in) IN
    IF ~ft.variadic
    THEN \/ Len(in) # n
         \/ \E i \in 1..n : ~Assignable(in[i].t, ft.in[i])
    ELSE \/ Len(in) < n - 1
         \/ \E i \in 1..Len(in) :
               IF i < n THEN ~Assignable(in[i].t, ft.in[i])
               ELSE ~Assignable(in[i].t, ft.in[n].elem)

\* the outcomes of a call
CallErr == [res |-> "nil", err |-> TRUE, panic |-> FALSE, inv |-> <<>>]
CallPanic == [res |-> "nil", err |-> FALSE, panic |-> TRUE, inv |-> <<>>]
CallOk(fn, in) ==
    [res |-> [fn |-> fn, in |-> in], err |-> FALSE, panic |-> FALSE,
     inv |-> <<[fn |-> fn, in |-> in]>>]

\* (mutant of ArityOk) a check that only rejects too many arguments
ArityAtMost(ft, n) == ft.variadic \/ n <= Len(ft.in)

\* !(!ft.IsVariadic() && len(params) != ft.NumIn())
ArityOk(ft, n) == ft.variadic \/ n = Len(ft.in)

\* the arity check, the argument loop and the Call, common to CallFunction
\* and CallMethod
Invoke(fn, params) ==
    LET ft == Sig(fn) IN
    IF ~ArityOk(ft, Len(params)) THEN CallErr
    ELSE LET in == [i \in 1..Len(params) |-> BindArg(ft, i, params[i])]
         IN IF ReflectCallPanics(ft, in) THEN CallPanic ELSE CallOk(fn, in)

\* (mutant of GetFunction) a lookup that falls back to a built-in function
GetFunctionOrDefault(reg, name) ==
    IF MapRead(reg, name).ok THEN MapRead(reg, name).v ELSE "fn1"

\* GetFunction: the registered function, or nil
GetFunction(reg, name) ==
    IF MapRead(reg, name).ok THEN MapRead(reg, name).v ELSE "nil"

\* CallFunction(name, params...)
CallFunction(reg, name, params) ==
    IF GetFunction(reg, name) = "nil" THEN CallErr
    ELSE Invoke(GetFunction(reg, name), params)

\* v.MethodByName(methodName): the method of that exact name, or invalid
MethodByName(instance, methodName) ==
    IF methodName \in DOMAIN MethodSet(instance.t)
    THEN MethodSet(instance.t)[methodName] ELSE "nil"

\* CallMethod(instance, methodName, params...)
CallMethod(instance, methodName, params) ==
    IF instance = NilV THEN CallErr
    ELSE IF MethodByName(instance, methodName) = "nil" THEN CallErr
    ELSE Invoke(MethodByName(instance, methodName), params)

\* RegisterFunction(name, fct)
RegisterFunction(name, fn) ==
    /\ callPhase = "idle"
    /\ functionRegistry' = MapAssign(functionRegistry, name, fn)
    /\ callDeleted' = callDeleted \ {name}
    /\ UNCHANGED <<callPhase, callReq, callOut, invoked>>
    /\ UNCHANGED <<regRestF, onceVars, matVars, pureVars, extVars>>

\* DefaultTypeManager().DeleteFunc(name)
PkgDeleteFunc(name) ==
    /\ callPhase = "idle"
    /\ functionRegistry' = MapDelete(functionRegistry, name)
    /\ callDeleted' = IF MapRead(functionRegistry, name).ok
                      THEN callDeleted \cup {name} ELSE callDeleted
    /\ UNCHANGED <<callPhase, callReq, callOut, invoked>>
    /\ UNCHANGED <<regRestF, onceVars, matVars, pureVars, extVars>>

\* the end of a call with outcome r
Returned(req, r) ==
    /\ callPhase' = "done"
    /\ callReq' = req
    /\ callOut' = [res |-> r.res, err |-> r.err, panic |-> r.panic]
    /\ invoked' = invoked \o r.inv
    /\ UNCHANGED <<callDeleted, regVars, onceVars, matVars, pureVars, extVars>>

\* a call of CallFunction, run to its return or its panic
InvokeCallFunction(name, params) ==
    /\ callPhase = "idle"
    /\ Returned([kind |-> "CallFunction", name |-> name, params |-> params],
                CallFunction(functionRegistry, name, params))

\* a call of CallMethod, run to its return or its panic
InvokeCallMethod(instance, methodName, params) ==
    /\ callPhase = "idle"
    /\ Returned([kind |-> "CallMethod", instance |-> instance, name |-> methodName,
                 params |-> params],
                CallMethod(instance, methodName, params))

NextCall ==
    \/ \E n \in FuncCallNames, fn \in Callables : RegisterFunction(n, fn)
    \/ \E n \in FuncCallNames : PkgDeleteFunc(n)
    \/ /\ callPhase = "idle"
       /\ \E n \in FuncCallNames, ps \in ParamLists : InvokeCallFunction(n, ps)
    \/ /\ callPhase = "idle"
       /\ \E x \in Instances, m \in MethodNames, ps \in ParamLists :
             InvokeCallMethod(x, m, ps)

SpecCall == Init /\ [][NextCall]_vars

(***************************************************************************)
(* Properties of a call of CallFunction or CallMethod.                     *)
(***************************************************************************)
CallDone == callPhase = "done"

\* the callable the call resolves to, or "nil"
CallTarget ==
    IF callReq.kind = "CallFunction" THEN GetFunction(functionRegistry, callReq.name)
    ELSE IF callReq.instance = NilV THEN "nil"
    ELSE MethodByName(callReq.instance, callReq.name)

\* the call returned an error and invoked nothing
RejectedCall ==
    /\ callOut = [res |-> "nil", err |-> TRUE, panic |-> FALSE]
    /\ invoked = <<>>

\* C12: a call of CallFunction or CallMethod that resolves to a non-variadic
\* callable of m parameters and passes n # m arguments returns an error and
\* invokes nothing
C12_ArityMismatch ==
    (/\ CallDone /\ CallTarget # "nil"
     /\ ~Sig(CallTarget).variadic
     /\ Len(callReq.params) # Len(Sig(CallTarget).in)) => RejectedCall

C12_Witness ==
    /\ CallDone /\ callReq.kind = "CallMethod" /\ CallTarget = "T.Do"
    /\ Len(callReq.params) = 0
    /\ RejectedCall

\* C13: CallFunction with a name the registry does not hold (never
\* registered, or deleted), and CallMethod with a nil instance or a method
\* name the instance does not expose in that exact spelling, return an error
\* and invoke nothing
C13_LookupFailure ==
    (/\ CallDone
     /\ \/ /\ callReq.kind = "CallFunction"
           /\ callReq.name \notin DOMAIN functionRegistry
        \/ /\ callReq.kind = "CallMethod"
           /\ \/ callReq.instance = NilV
              \/ callReq.name \notin DOMAIN MethodSet(callReq.instance.t)) => RejectedCall

C13_Witness ==
    /\ CallDone /\ callReq.kind = "CallFunction"
    /\ callReq.name \in callDeleted
    /\ callReq.name \notin DOMAIN functionRegistry
    /\ callReq.params = <<IntV(104), StrV("a")>>
    /\ RejectedCall

\* C14 (as claimed): every call of CallFunction or CallMethod returns
\* (results, nil) or (nil, error); none panics
C14_ErrorsSurfaced ==
    CallDone =>
        /\ ~callOut.panic
        /\ callOut.err => invoked = <<>>

\* the arguments the claim of C15 has a call with n nil arguments bind
NilBound(ft, n) ==
    [i \in 1..n |-> IF ~ft.variadic \/ i < Len(ft.in)
                    THEN Arg(ft.in[i], Zero(ft.in[i]))
                    ELSE Arg(ft.in[Len(ft.in)].elem, NilV)]

\* C15 (as claimed): a call whose arguments are all nil, of the right count,
\* invokes the target with the zero value of each fixed parameter's type and
\* a nil of the variadic element type for each argument of the tail
C15_NilArgsBound ==
    (/\ CallDone /\ CallTarget # "nil"
     /\ \A i \in 1..Len(callReq.params) : callReq.params[i] = NilV
     /\ IF Sig(CallTarget).variadic
        THEN Len(callReq.params) >= Len(Sig(CallTarget).in) - 1
        ELSE Len(callReq.params) = Len(Sig(CallTarget).in)) =>
        /\ ~callOut.panic /\ ~callOut.err
        /\ invoked = <<[fn |-> CallTarget,
                        in |-> NilBound(Sig(CallTarget), Len(callReq.params))]>>

(***************************************************************************)
(* InitializeArray (dynamic_reflect.go:185-211).                           *)
(***************************************************************************)
\* longest input of InitializeArray
MaxElems == 3

ArrayElems == {NilV, IntV(1), IntV(2), StrV("a"), BoolV(TRUE)}
ArrayInputs == UNION {[1..n -> ArrayElems] : n \in 0..MaxElems}

\* the first loop, from index i on (counted from 1): sameType after comparing
\* each non-nil element with its predecessor; reflect.TypeOf of a nil
\* predecessor is the nil Type, and String() on it panics
RECURSIVE SameTypeLoop(_, _, _)
SameTypeLoop(data, i, sameType) ==
    IF i > Len(data) \/ ~sameType THEN [same |-> sameType, panic |-> FALSE]
    ELSE IF data[i] = NilV THEN SameTypeLoop(data, i + 1, sameType)
    ELSE IF data[i - 1] = NilV THEN [same |-> sameType, panic |-> TRUE]
    ELSE SameTypeLoop(data, i + 1, TypeOfV(data[i]) = TypeOfV(data[i - 1]))

\* reflect.Append(values, x): panics on the zero Value and on an element that
\* is not assignable to the element type
AppendValue(values, x) ==
    IF ~IsValid(values.v) \/ ~Assignable(TypeOfV(x), values.v.et) THEN Panicked
    ELSE Val(SliceV(values.v.et, Append(values.v.q, x)))

\* the slice made at the first element
FirstSlice(x, sameType) ==
    IF sameType THEN Val(SliceV(TypeOfV(x), <<>>)) ELSE Val(SliceV(IfaceT, <<>>))

\* one iteration of the second loop
ArrayStep(data, i, values, sameType) ==
    IF data[i] = NilV THEN values
    ELSE AppendValue(IF i = 1 THEN FirstSlice(data[i], sameType) ELSE values, data[i])

\* the second loop, from index i on
RECURSIVE AppendLoop(_, _, _, _)
AppendLoop(data, i, values, sameType) ==
    IF i > Len(data) \/ values.panic THEN values
    ELSE AppendLoop(data, i + 1, ArrayStep(data, i, values, sameType), sameType)

\* the second loop entered with the outcome s of the first
ArrayFill(data, s) ==
    IF s.panic THEN Panicked ELSE AppendLoop(data, 1, Val(InvalidV), s.same)

\* InitializeArray(data)
InitializeArray(data) == ArrayFill(data, SameTypeLoop(data, 2, TRUE))

(***************************************************************************)
(* SpecPure: one call of a function that touches no state.                 *)
(***************************************************************************)
\* a call of InitializeArray
ApplyInitializeArray(data) ==
    /\ pureOp = "none"
    /\ pureOp' = "InitializeArray"
    /\ pureIn' = SliceV(IfaceT, data)
    /\ pureOut' = InitializeArray(data)
    /\ UNCHANGED <<regVars, onceVars, matVars, callVars, extVars>>

\* the non-nil elements of the input, in input order
NonNil(data) == LET Present(x) == x # NilV IN SelectSeq(data, Present)

ArrayDone == pureOp = "InitializeArray"

\* C16 (as claimed): for every input, InitializeArray returns a sequence
\* typed X when all its non-nil elements have type X and an untyped sequence
\* when they do not
C16_TypedIffHomogeneous ==
    (ArrayDone /\ NonNil(pureIn.q) # <<>>) =>
        /\ ~pureOut.panic
        /\ pureOut.v.k = "slice"
        /\ pureOut.v.et =
             IF \A i \in 1..Len(NonNil(pureIn.q)) :
                    TypeOfV(NonNil(pureIn.q)[i]) = TypeOfV(NonNil(pureIn.q)[1])
             THEN TypeOfV(NonNil(pureIn.q)[1]) ELSE IfaceT

\* C17 (as claimed): for every input, InitializeArray returns without failure,
\* and a sequence it returns holds exactly the non-nil elements of the input
\* in input order
C17_NonNilInOrder ==
    ArrayDone =>
        /\ ~pureOut.panic
        /\ IsValid(pureOut.v) => pureOut.v.q = NonNil(pureIn.q)
        /\ NonNil(pureIn.q) # <<>> => IsValid(pureOut.v)

(***************************************************************************)
(* The conversions of number.go applied to values of every kind.           *)
(***************************************************************************)
\* a []byte of the given bytes
BytesV(q) == SliceV(Uint8T, [i \in 1..Len(q) |-> Uint8V(q[i])])

ConvInputs ==
    {StrV(s) : s \in {"42", "7", "3.9", "true", " u-2 ", "x"}}
    \cup {IntV(i) : i \in {0, 7, -3}}
    \cup {NumV(k, i) : k \in SignedKinds, i \in {0, 7, -3}}
    \cup {NumV(k, i) : k \in UnsignedKinds \cup {"uint8"}, i \in {0, 7}}
    \cup {FloatV(k, t) : k \in FloatKinds, t \in {0, 5, 39, 30, -5, -39, -30}}
    \cup {BoolV(b) : b \in BOOLEAN}
    \cup {BytesV(<<0, 0, 0, 0, 0, 0, 1, 2>>), BytesV(<<0, 0, 0, 0, 0, 1, 0, 7>>),
          BytesV(<<0, 0, 0, 0, 0, 0, 0, 0, 9>>), BytesV(<<104, 105>>), BytesV(<<>>)}
    \cup {TimeV(1000), NilV, ChanV, MapIntV, StructV("U", ZeroFields("U")),
          MapV([UUID |-> StrV("u-1")]), SliceV(StringT, <<StrV("a"), StrV("x")>>)}

ApplyToString(x) ==
    /\ pureOp = "none"
    /\ pureOp' = "ToString"
    /\ pureIn' = x
    /\ pureOut' = IF ToStringPanics(x) THEN Panicked ELSE Val(StrV(ToString(x)))
    /\ UNCHANGED <<regVars, onceVars, matVars, callVars, extVars>>

ApplyToInt(x) ==
    /\ pureOp = "none"
    /\ pureOp' = "ToInt"
    /\ pureIn' = x
    /\ pureOut' = IF ToIntPanics(x) THEN Panicked ELSE Val(IntV(ToInt(x)))
    /\ UNCHANGED <<regVars, onceVars, matVars, callVars, extVars>>

ApplyToBool(x) ==
    /\ pureOp = "none"
    /\ pureOp' = "ToBool"
    /\ pureIn' = x
    /\ pureOut' = IF ToBoolPanics(x) THEN Panicked ELSE Val(BoolV(ToBool(x)))
    /\ UNCHANGED <<regVars, onceVars, matVars, callVars, extVars>>

ApplyToNumeric(x) ==
    /\ pureOp = "none"
    /\ pureOp' = "ToNumeric"
    /\ pureIn' = x
    /\ pureOut' = IF ToNumericPanics(x) THEN Panicked
                ELSE Val(FloatV("float64", ToNumeric(x)))
    /\ UNCHANGED <<regVars, onceVars, matVars, callVars, extVars>>

ConvDone == pureOp \in {"ToString", "ToInt", "ToBool", "ToNumeric"}

\* the kinds the conversions are declared to support: integers of every
\* width, floats, bool, string, byte sequences, time values
SupportedKind(v) ==
    \/ v.k \in {"int", "uint8", "bool", "string", "time"}
    \/ v.k \in SignedKinds \cup UnsignedKinds \cup FloatKinds
    \/ IsBytes(v)

\* C18 (as claimed): each of ToString, ToInt, ToBool, ToNumeric returns a
\* result, without panicking, for a value of every supported kind
C18_TotalOnSupported ==
    (ConvDone /\ SupportedKind(pureIn)) => ~pureOut.panic

\* C19 (as claimed): each of ToString, ToInt, ToBool, ToNumeric panics on a
\* value of a kind without a conversion rule (a struct, a channel, a map with
\* non-string keys) and never returns a default for it
C19_UnsupportedFatal ==
    (ConvDone /\ pureIn.k \in {"struct", "chan", "mapint"}) => pureOut.panic

\* byte n (counted from the least significant, from 0) of a non-negative i
RECURSIVE ByteAt(_, _)
ByteAt(i, n) == IF n = 0 THEN i % 256 ELSE ByteAt(i \div 256, n - 1)

\* C20: ToInt returns 42 for "42"; for a float the integer of the same sign
\* whose magnitude is the largest not exceeding the float's; 1 for true and 0
\* for false; for a byte sequence of exactly 8 bytes the integer whose
\* big-endian bytes they are
C20_ToIntValues ==
    (pureOp = "ToInt") =>
        /\ pureIn = StrV("42") => pureOut = Val(IntV(42))
        /\ pureIn.k \in FloatKinds =>
              /\ ~pureOut.panic
              /\ IF pureIn.t >= 0
                 THEN /\ pureOut.v.i * 10 <= pureIn.t
                      /\ pureIn.t < (pureOut.v.i + 1) * 10
                 ELSE /\ pureOut.v.i * 10 >= pureIn.t
                      /\ pureIn.t > (pureOut.v.i - 1) * 10
        /\ pureIn.k = "bool" => pureOut = Val(IntV(IF pureIn.b THEN 1 ELSE 0))
        /\ (IsBytes(pureIn) /\ Len(pureIn.q) = 8) =>
              /\ ~pureOut.panic
              /\ pureOut.v.i >= 0
              /\ \A j \in 1..8 : ByteAt(pureOut.v.i, 8 - j) = pureIn.q[j].i

C20_Witness ==
    /\ pureOp = "ToInt"
    /\ pureIn = FloatV("float64", -39)
    /\ pureOut = Val(IntV(-3))

(***************************************************************************)
(* Round (number.go:183-199).  A float64 is held in quarters, so that the  *)
(* halves and the products x * pow of the inputs are exact as they are in  *)
(* binary; x.huge says that |x * pow| exceeds the guard 1e17.              *)
(***************************************************************************)
\* the float64 of q quarters
QuarterV(q, huge) == [k |-> "float64", q |-> q, huge |-> huge]
\* the float64 v / 10^n, the form Round returns
ScaledV(v, n) == [k |-> "float64", v |-> v, n |-> n]

\* the compilers' float64 to uint64 conversions of a negative value, which
\* the language leaves to the implementation
Builds == {"amd64", "arm64"}

RoundInputs ==
    {QuarterV(q, FALSE) : q \in {-14, -10, -7, -6, -5, -2, -1, 0, 1, 2, 5, 6, 7, 10, 14}}
    \cup {QuarterV(q, TRUE) : q \in {-1, 1}}
RoundDigits == {0, 1}

\* math.Pow(10, n)
Pow10(n) == IF n = 0 THEN 1 ELSE 10

\* math.Modf: the integer part, toward zero, of s quarters
ModfInt(s) == IF s < 0 THEN 0 - ((0 - s) \div 4) ELSE s \div 4
\* math.Modf: the fractional part, in quarters, with the sign of s
ModfFrac(s) == s - 4 * ModfInt(s)

\* uint64(v) % 2: a negative v wraps modulo 2^64 on amd64 and is clamped to
\* 0 on arm64
Uint64Mod2(v, build) ==
    IF v >= 0 THEN v % 2
    ELSE IF build = "amd64" THEN v % 2 ELSE 0

\* the rounding of the scaled value, lines 188-197
RoundScaled(x, s, build) ==
    IF x.q > 0
    THEN IF ModfFrac(s) > 2 \/ (ModfFrac(s) = 2 /\ Uint64Mod2(ModfInt(s), build) # 0)
         THEN ModfInt(s) + 1 ELSE ModfInt(s)
    ELSE IF ModfFrac(s) < -2 \/ (ModfFrac(s) = -2 /\ Uint64Mod2(ModfInt(s), build) # 0)
         THEN ModfInt(s) - 1 ELSE ModfInt(s)

\* Round(x, n)
Round(x, n, build) ==
    IF x.huge THEN x ELSE ScaledV(RoundScaled(x, x.q * Pow10(n), build), n)

ApplyRound(x, n, build) ==
    /\ pureOp = "none"
    /\ pureOp' = "Round"
    /\ pureIn' = [k |-> "args", x |-> x, n |-> n, build |-> build]
    /\ pureOut' = Val(Round(x, n, build))
    /\ UNCHANGED <<regVars, onceVars, matVars, callVars, extVars>>

\* |4v - s|: the distance, in quarters, of the integer v from s quarters
Dist(v, s) == IF 4 * v >= s THEN 4 * v - s ELSE s - 4 * v

\* C21 (as claimed): Round(x, n) is the multiple of 10^-n nearest to x, the
\* even one when x is halfway between two, for positive, negative and zero x
\* within the guard; beyond the guard it is x unchanged
C21_RoundHalfEven ==
    (pureOp = "Round") =>
        IF pureIn.x.huge THEN pureOut.v = pureIn.x
        ELSE /\ pureOut.v.n = pureIn.n
             /\ Dist(pureOut.v.v, pureIn.x.q * Pow10(pureIn.n)) <= 2
             /\ Dist(pureOut.v.v, pureIn.x.q * Pow10(pureIn.n)) = 2
                    => pureOut.v.v % 2 = 0

(***************************************************************************)
(* Less (number.go:202-227).                                               *)
(***************************************************************************)
LessInputs ==
    {NilV, StrV("a"), StrV("x"), IntV(0), IntV(7), NumV("int8", 0), NumV("int8", 7),
     NumV("uint", 0), NumV("uint", 7), FloatV("float64", 5), FloatV("float64", 39),
     BoolV(FALSE), BoolV(TRUE)}

\* the kinds Less has a case for
LessKinds == {"string", "int", "float32", "float64"} \cup SignedKinds

\* the position of a string of the model in the order of Go's < on strings
StrRank(s) ==
    CASE s = "" -> 0
      [] s = " u-2 " -> 1
      [] s = "3.9" -> 2
      [] s = "42" -> 3
      [] s = "7" -> 4
      [] s = "a" -> 5
      [] s = "true" -> 6
      [] s = "u-1" -> 7
      [] s = "u-2" -> 8
      [] OTHER -> 9

\* val0 < val1 for two values of one kind
LessThan(a, b) ==
    CASE a.k = "string" -> StrRank(a.s) < StrRank(b.s)
      [] a.k \in FloatKinds -> a.t < b.t
      [] OTHER -> a.i < b.i

\* Less(val0, val1): the type assertion on val1 panics when val1 is not of
\* val0's type
Less(a, b) ==
    IF a = NilV \/ b = NilV THEN Val(BoolV(TRUE))
    ELSE IF a.k \in LessKinds
         THEN IF b.k # a.k THEN Panicked ELSE Val(BoolV(LessThan(a, b)))
         ELSE Val(BoolV(FALSE))

ApplyLess(a, b) ==
    /\ pureOp = "none"
    /\ pureOp' = "Less"
    /\ pureIn' = [k |-> "args", a |-> a, b |-> b]
    /\ pureOut' = Less(a, b)
    /\ UNCHANGED <<regVars, onceVars, matVars, callVars, extVars>>

\* the kinds whose values Go's < orders
Ordered(v) == v.k \in LessKinds \cup UnsignedKinds \cup {"uint8"}

\* C22 (as claimed): Less never panics; on two non-nil operands of one
\* ordered kind it returns a < b; with a nil first operand it returns true
C22_LessStrictOrder ==
    (pureOp = "Less") =>
        /\ ~pureOut.panic
        /\ (pureIn.a # NilV /\ pureIn.b # NilV /\ pureIn.a.k = pureIn.b.k
              /\ Ordered(pureIn.a))
             => pureOut.v = BoolV(LessThan(pureIn.a, pureIn.b))
        /\ pureIn.a = NilV => pureOut.v = BoolV(TRUE)

NextPure ==
    \/ \E data \in ArrayInputs : ApplyInitializeArray(data)
    \/ \E x \in ConvInputs : ApplyToString(x)
    \/ \E x \in ConvInputs : ApplyToInt(x)
    \/ \E x \in ConvInputs : ApplyToBool(x)
    \/ \E x \in ConvInputs : ApplyToNumeric(x)
    \/ \E x \in RoundInputs, n \in RoundDigits, build \in Builds : ApplyRound(x, n, build)
    \/ \E a \in LessInputs, b \in LessInputs : ApplyLess(a, b)

SpecPure == Init /\ [][NextPure]_vars

(***************************************************************************)
(* Further properties of a call of InitializeStructure (SpecMat).          *)
(***************************************************************************)
\* C26 (as claimed): the callback only ever receives typed instances, never a
\* raw mapping: a sub-document whose TYPENAME is not registered is not passed
\* to it, wherever the sub-document occurs
C26_CallbackTypedOnly ==
    MatDone => \A i \in 1..Len(matLog) : matLog[i].k = "ptr"

\* the string-typed fields whose names do not begin with M_
PlainStringFields == {"UUID", "Name"}

\* a typed sub-document that has an identity
TypedWithUUID(v) ==
    /\ v.k = "map"
    /\ "TYPENAME" \in DOMAIN v.m /\ v.m["TYPENAME"].k = "string"
    /\ "UUID" \in DOMAIN v.m /\ v.m["UUID"].k = "string"

\* C27 (as claimed): in the instance a call returns, a string field without
\* the prefix M_ never holds the UUID of the typed sub-document supplied for
\* it, no element of the sequence field Items is a UUID string, and each typed
\* element supplied for the sequence field M_refs is stored as the UUID string
\* of its document
C27_CollapseOnlyUnderPrefix ==
    (MatDone /\ ~matOut.panic /\ matOut.v.k = "ptr") =>
        /\ \A n \in PlainStringFields \cap DOMAIN matDoc \cap DOMAIN matOut.v.f :
              TypedWithUUID(matDoc[n])
                 => matOut.v.f[n] # StrV(ToString(matDoc[n].m["UUID"]))
        /\ ("Items" \in DOMAIN matDoc \cap DOMAIN matOut.v.f
              /\ matOut.v.f["Items"] # NilV)
             => \A i \in 1..Len(matOut.v.f["Items"].q) :
                    matOut.v.f["Items"].q[i].k # "string"
        /\ ("M_refs" \in DOMAIN matDoc \cap DOMAIN matOut.v.f
              /\ matDoc["M_refs"].k = "slice" /\ ~IsBytes(matDoc["M_refs"]))
             => \A i \in 1..Len(matDoc["M_refs"].q) :
                    TypedWithUUID(matDoc["M_refs"].q[i])
                       => matOut.v.f["M_refs"].q[i]
                            = StrV(ToString(matDoc["M_refs"].q[i].m["UUID"]))

(***************************************************************************)
(* SpecPkg: the package-level RegisterType, GetTypeOf and GetInstanceOf    *)
(* (dynamic_reflect.go:38-77) on the default manager, single-threaded.     *)
(***************************************************************************)
\* struct types of several packages; path is t.PkgPath() split at "/"
PkgTypes ==
    {[id |-> "T", path |-> <<"github.com", "a", "pkg">>, name |-> "T"],
     [id |-> "T2", path |-> <<"github.com", "b", "pkg">>, name |-> "T"],
     [id |-> "U", path |-> <<"pkg">>, name |-> "U"],
     [id |-> "U2", path |-> <<"x", "pkg">>, name |-> "U"]}

LookupNames == {"pkg.T", "pkg.U", "pkg.X"}

\* the name RegisterType computes: the last element of the package path,
\* or the whole path if it has no "/", then "." and the type's name
QualifiedName(typ) ==
    IF Len(typ.path) > 1
    THEN typ.path[Len(typ.path)] \o "." \o typ.name
    ELSE typ.path[1] \o "." \o typ.name

\* if _, ok := GetType(fq); !ok { RegisterType(fq, t) }
StoreIfAbsent(reg, fq, id) ==
    IF MapRead(reg, fq).ok THEN reg ELSE MapAssign(reg, fq, id)

\* RegisterType(typedNil)
RegisterTypedNil(typ) ==
    /\ typeRegistry' = StoreIfAbsent(typeRegistry, QualifiedName(typ), typ.id)
    /\ pkgLast' = MapAssign(pkgLast, QualifiedName(typ), typ.id)
    /\ UNCHANGED <<pkgGot, regRest, onceVars, matVars, callVars, pureVars, cmdVars, liveVars>>

\* DefaultTypeManager().DeleteType(name)
DeleteRegistered(name) ==
    /\ name \in DOMAIN typeRegistry
    /\ typeRegistry' = MapDelete(typeRegistry, name)
    /\ pkgLast' = MapDelete(pkgLast, name)
    /\ UNCHANGED <<pkgGot, regRest, onceVars, matVars, callVars, pureVars, cmdVars, liveVars>>

\* what a lookup of name should resolve to if each registration overwrote
LastOf(name) == IF name \in DOMAIN pkgLast THEN pkgLast[name] ELSE "none"

\* SetProperty(instance, "TYPENAME", typeName)
SetProperty(t, f, field, val) ==
    IF HasField(t, field) /\ Fields(t)[field] = TypeOfV(val)
    THEN [f EXCEPT ![field] = val] ELSE f

\* GetTypeOf(typeName): the pointer type, or nil
GetTypeOf(name) ==
    /\ pkgGot' = [op |-> "GetTypeOf", name |-> name, last |-> LastOf(name),
                  v |-> IF MapRead(typeRegistry, name).ok
                        THEN PtrT(typeRegistry[name]) ELSE NilV]
    /\ UNCHANGED <<pkgLast, regVars, onceVars, matVars, callVars, pureVars, cmdVars, liveVars>>

\* GetInstanceOf(typeName): a new *T with TYPENAME set, or nil
GetInstanceOf(name) ==
    /\ pkgGot' = [op |-> "GetInstanceOf", name |-> name, last |-> LastOf(name),
                  v |-> IF MapRead(typeRegistry, name).ok
                        THEN PtrV(1, typeRegistry[name],
                                  SetProperty(typeRegistry[name],
                                              ZeroFields(typeRegistry[name]),
                                              "TYPENAME", StrV(name)))
                        ELSE NilV]
    /\ UNCHANGED <<pkgLast, regVars, onceVars, matVars, callVars, pureVars, cmdVars, liveVars>>

NextPkg ==
    \/ \E typ \in PkgTypes : RegisterTypedNil(typ)
    \/ \E name \in LookupNames : DeleteRegistered(name)
    \/ \E name \in LookupNames : GetTypeOf(name)
    \/ \E name \in LookupNames : GetInstanceOf(name)

SpecPkg == Init /\ [][NextPkg]_vars

\* the struct type a lookup resolved to, "none" for nil
ResolvedType(g) ==
    IF g.v = NilV THEN "none"
    ELSE IF g.op = "GetTypeOf" THEN g.v.elem ELSE g.v.t

\* C25 (as claimed): GetTypeOf and GetInstanceOf resolve a name to the type
\* most recently passed to RegisterType under that name
C25_LastRegistrationWins ==
    (pkgGot.op # "none" /\ pkgGot.last # "none") => ResolvedType(pkgGot) = pkgGot.last

(***************************************************************************)
(* SpecDoc: what can be done with an instance once InitializeStructure     *)
(* has returned it: turning it back into a document (json.go:29-40) and    *)
(* materializing that, and writing to a map of the source document.  A Go  *)
(* map is a reference: each map of a document carries, under the key       *)
(* "@addr", the address of its storage, which no map iteration visits.     *)
(***************************************************************************)
\* the map m allocated at address a
At(a, m) == MapAssign(m, "@addr", IntV(a))

\* base64.StdEncoding of the byte sequences of the model
Base64(q) == IF q = <<>> THEN "" ELSE "aGk="

\* json.Marshal then json.Unmarshal into interface{}: numbers come back as
\* float64, structs and pointers as maps of their fields, []byte as a string
RECURSIVE JsonOf(_)
JsonOf(v) ==
    CASE v.k \in {"ptr", "struct"} -> MapV([n \in DOMAIN v.f |-> JsonOf(v.f[n])])
      [] v.k = "map" -> MapV([n \in DOMAIN v.m \ {"@addr"} |-> JsonOf(v.m[n])])
      [] v.k = "slice" ->
            IF IsBytes(v) THEN StrV(Base64(v.q))
            ELSE SliceV(IfaceT, [i \in 1..Len(v.q) |-> JsonOf(v.q[i])])
      [] v.k \in {"int", "uint8"} -> FloatV("float64", v.i * 10)
      [] OTHER -> v

\* ToMap(in)
ToMap(in) == JsonOf(in).m

\* the document form of an instance: its fields plus TYPENAME
DocumentOf(v) == MapAssign(ToMap(v), "TYPENAME", StrV(FqName(v.t)))

\* a value without the addresses of its pointers and maps
RECURSIVE Erase(_)
Erase(v) ==
    CASE v.k = "ptr" -> PtrV(0, v.t, [n \in DOMAIN v.f |-> Erase(v.f[n])])
      [] v.k = "struct" -> StructV(v.t, [n \in DOMAIN v.f |-> Erase(v.f[n])])
      [] v.k = "map" -> MapV([n \in DOMAIN v.m \ {"@addr"} |-> Erase(v.m[n])])
      [] v.k = "slice" -> SliceV(v.et, [i \in 1..Len(v.q) |-> Erase(v.q[i])])
      [] OTHER -> v

\* the addresses of the maps held in a value
RECURSIVE Addrs(_)
Addrs(v) ==
    CASE v.k \in {"ptr", "struct"} -> UNION {Addrs(v.f[n]) : n \in DOMAIN v.f}
      [] v.k = "map" ->
            (IF "@addr" \in DOMAIN v.m THEN {v.m["@addr"].i} ELSE {})
            \cup UNION {Addrs(v.m[n]) : n \in DOMAIN v.m}
      [] v.k = "slice" -> UNION {Addrs(v.q[i]) : i \in 1..Len(v.q)}
      [] OTHER -> {}

\* the statement m["Zzz"] = 99 on the map at address a, as seen through v
RECURSIVE Poke(_, _)
Poke(v, a) ==
    CASE v.k = "ptr" -> PtrV(v.id, v.t, [n \in DOMAIN v.f |-> Poke(v.f[n], a)])
      [] v.k = "struct" -> StructV(v.t, [n \in DOMAIN v.f |-> Poke(v.f[n], a)])
      [] v.k = "map" ->
            IF "@addr" \in DOMAIN v.m /\ v.m["@addr"] = IntV(a)
            THEN MapV(MapAssign([n \in DOMAIN v.m |-> Poke(v.m[n], a)], "Zzz", IntV(99)))
            ELSE MapV([n \in DOMAIN v.m |-> Poke(v.m[n], a)])
      [] v.k = "slice" -> SliceV(v.et, [i \in 1..Len(v.q) |-> Poke(v.q[i], a)])
      [] OTHER -> v

\* the maps a document supplies for a field: untyped, of an unregistered
\* type, of a registered type
HeldMaps ==
    {MapV(At(1, [UUID |-> StrV("u-1")])),
     MapV(At(1, SubDoc(StrV("pkg.X"), StrV("u-1")))),
     MapV(At(1, SubDoc(StrV("pkg.U"), StrV("u-1"))))}

DocVals ==
    Scalars \cup {NilV} \cup HeldMaps
    \cup {SliceV(IfaceT, <<m>>) : m \in HeldMaps}
    \cup {SliceV(IfaceT, <<IntV(7), MapV(At(2, [UUID |-> StrV("u-1")]))>>)}

DocExtras ==
    {<<"Zzz", AbsentV>>, <<"Val", IntV(7)>>,
     <<"Child", MapV(At(3, SubDoc(StrV("pkg.U"), StrV("u-1"))))>>}

OwnDocs ==
    {TopDoc(tn, k, v, x) : tn \in {StrV("pkg.T"), StrV("pkg.U")}, k \in Keys1,
                           v \in DocVals, x \in DocExtras}

\* the call returned a typed instance
Materialized == matPhase = "done" /\ ~matOut.panic /\ ~matOut.err /\ matOut.v.k = "ptr"

\* InitializeStructure(documentOf(v), nil) on the instance v just returned
RoundTrip ==
    /\ Materialized
    /\ LET r == InitializeStructure([reg |-> typeRegistry, cb |-> FALSE, ord |-> matOrd],
                                    DocumentOf(matOut.v), NewSt)
       IN matThen' = [v |-> IF r.st.panic THEN InvalidV ELSE r.v,
                      err |-> r.err, panic |-> r.st.panic]
    /\ matPhase' = "tripped"
    /\ UNCHANGED <<matDoc, matCb, matOrd, matOut, matLog, matRegBefore,
                   regVars, onceVars, callVars, pureVars, extVars>>

\* the caller writes to the map at address a of the source document; matThen
\* is the instance as it reads afterwards
MutateDocument(a) ==
    /\ Materialized
    /\ a \in Addrs(MapV(matDoc))
    /\ matDoc' = Poke(MapV(matDoc), a).m
    /\ matThen' = [v |-> Poke(matOut.v, a), err |-> FALSE, panic |-> FALSE]
    /\ matPhase' = "mutated"
    /\ UNCHANGED <<matCb, matOrd, matOut, matLog, matRegBefore,
                   regVars, onceVars, callVars, pureVars, extVars>>

NextDoc ==
    \/ \E t \in TypeIds : PkgRegisterType(t)
    \/ /\ matPhase = "idle"
       /\ \E doc \in OwnDocs, ord \in {"asc", "desc"} :
             CallInitializeStructure(doc, FALSE, ord)
    \/ RoundTrip
    \/ \E a \in 1..3 : MutateDocument(a)

SpecDoc == Init /\ [][NextDoc]_vars

\* C23 (as claimed): materializing the document form of a materialized
\* instance yields, without failure, an instance equal to it field for field
C23_RoundTrip ==
    (matPhase = "tripped") =>
        /\ ~matThen.panic
        /\ ~matThen.err
        /\ Erase(matThen.v) = Erase(matOut.v)

\* C24 (as claimed): a write to a map of the source document after the call
\* has returned changes no field of the instance
C24_NoSharedStorage ==
    (matPhase = "mutated") => matThen.v = matOut.v

(***************************************************************************)
(* SpecRace: one call of InitializeStructure (dynamic_reflect.go:120-136)  *)
(* while another goroutine registers and deletes types.  Each registry     *)
(* method is atomic (it holds the lock); the call looks the type up twice, *)
(* in InitializeStructure and again in initializeStructureValue.           *)
(***************************************************************************)
RaceDocs ==
    {TopDoc(tn, k, v, <<"Zzz", AbsentV>>) :
        tn \in {AbsentV, StrV("pkg.T"), StrV("pkg.U"), StrV("pkg.X")},
        k \in {"Name", "Child", "Items"},
        v \in {StrV("u-1"), MapV(SubDoc(StrV("pkg.U"), StrV("u-1"))),
               SliceV(IfaceT, <<MapV(SubDoc(StrV("pkg.U"), StrV("u-1")))>>)}}

\* the outcome of InitializeStructure up to and including its own lookup:
\* "found" if it goes on to MakeInstance
FirstLookup(reg, data) ==
    IF ~TypeNameOf(data).has THEN [phase |-> "done", out |-> [v |-> InvalidV, err |-> TRUE, panic |-> FALSE]]
    ELSE IF ToStringPanics(TypeNameOf(data).v)
         THEN [phase |-> "done", out |-> [v |-> InvalidV, err |-> FALSE, panic |-> TRUE]]
    ELSE IF ToString(TypeNameOf(data).v) \in DOMAIN reg
         THEN [phase |-> "found", out |-> NoOut]
         ELSE [phase |-> "done", out |-> [v |-> MapV(data), err |-> FALSE, panic |-> FALSE]]

\* InitializeStructure(doc, setEntity) up to its lookup of the type
RaceBegin(doc, cb, ord) ==
    /\ matPhase = "idle"
    /\ matPhase' = FirstLookup(typeRegistry, doc).phase
    /\ matOut' = FirstLookup(typeRegistry, doc).out
    /\ matDoc' = doc
    /\ matCb' = cb
    /\ matOrd' = ord
    /\ matRegBefore' = typeRegistry
    /\ UNCHANGED <<matLog, matThen, regVars, onceVars, callVars, pureVars, extVars>>

\* the outcome of a step of the call given the value it has built
StepOut(r) == [v |-> IF r.st.panic THEN InvalidV ELSE r.v, err |-> FALSE, panic |-> r.st.panic]

\* value = MakeInstance(tn, data, setEntity): the second lookup, the
\* construction and MakeInstance's call of setEntity
RaceMake ==
    /\ matPhase = "found"
    /\ LET r == MakeInstance([reg |-> typeRegistry, cb |-> matCb, ord |-> matOrd],
                             ToString(matDoc["TYPENAME"]), matDoc, NewSt)
       IN /\ matOut' = StepOut(r)
          /\ matLog' = r.st.log
          /\ matPhase' = IF r.st.panic THEN "done" ELSE "made"
    /\ UNCHANGED <<matDoc, matCb, matOrd, matRegBefore, matThen,
                   regVars, onceVars, callVars, pureVars, extVars>>

\* if setEntity != nil && value.IsValid() { setEntity(value.Interface()) };
\* return value, nil
RaceReturn ==
    /\ matPhase = "made"
    /\ matLog' = IF matCb /\ IsValid(matOut.v) THEN Append(matLog, matOut.v) ELSE matLog
    /\ matPhase' = "done"
    /\ UNCHANGED <<matDoc, matCb, matOrd, matOut, matRegBefore, matThen,
                   regVars, onceVars, callVars, pureVars, extVars>>

\* another goroutine: RegisterType(typedNil)
OtherRegisterType(t) ==
    /\ matPhase # "done"
    /\ typeRegistry' = IF MapRead(typeRegistry, FqName(t)).ok THEN typeRegistry
                       ELSE MapAssign(typeRegistry, FqName(t), t)
    /\ UNCHANGED <<regRest, onceVars, matVars, callVars, pureVars, extVars>>

\* another goroutine: DefaultTypeManager().DeleteType(name)
OtherDeleteType(name) ==
    /\ matPhase # "done"
    /\ name \in DOMAIN typeRegistry
    /\ typeRegistry' = MapDelete(typeRegistry, name)
    /\ UNCHANGED <<regRest, onceVars, matVars, callVars, pureVars, extVars>>

NextRace ==
    \/ \E t \in TypeIds : OtherRegisterType(t)
    \/ \E n \in TypeNames : OtherDeleteType(n)
    \/ /\ matPhase = "idle"
       /\ \E doc \in RaceDocs, cb \in BOOLEAN, ord \in {"asc", "desc"} :
             RaceBegin(doc, cb, ord)
    \/ RaceMake
    \/ RaceReturn

SpecRace == Init /\ [][NextRace]_vars

\* C30 (as claimed): a call that returns the raw document has not invoked the
\* callback, and a call that returns a typed instance has passed that
\* instance to the callback, whatever the other goroutine does meanwhile
C30_SingleRegistryState ==
    (MatDone /\ ~matOut.panic) =>
        /\ matOut.v.k = "map" => matLog = <<>>
        /\ (matOut.v.k = "ptr" /\ matCb) =>
              (matLog # <<>> /\ matLog[Len(matLog)] = matOut.v)

(***************************************************************************)
(* SpecCmd: one call of RunCmd (proc.go:152-204): the calling goroutine,   *)
(* the printer goroutine, the goroutine running ReadOutput                 *)
(* (proc.go:126-147) and the command, which writes lines to its stdout     *)
(* and exits.                                                              *)
(***************************************************************************)
\* the most lines the command writes
MaxLines == 2
\* capacity of outCh (256 in the source)
ChanCap == 1

\* the lines a command writes: a line of text, a blank line, and a line
\* longer than the scanner's buffer of 1 MB
Lines == {"a", " ", "long"}

\* the command has been started
Started == cpc \in {"goPrinter", "goReader", "Wait", "donePrint", "send"}

\* stdout, err := cmd.StdoutPipe(); if err != nil { wait <- err; return }
StdoutPipe(fails) ==
    /\ cpc = "call"
    /\ IF fails
       THEN waitCh' = Append(waitCh, "err") /\ cpc' = "returned"
       ELSE waitCh' = waitCh /\ cpc' = "Start"
    /\ UNCHANGED <<rpc, ppc, outCh, outClosed, donePrint, pipe, procLeft, procExited,
                   pipeClosed, sentLines, printedLines>>

\* if err := cmd.Start(); err != nil { wait <- ...; return }; the command
\* started will write at most n lines
Start(fails, n) ==
    /\ cpc = "Start"
    /\ IF fails
       THEN waitCh' = Append(waitCh, "err") /\ cpc' = "returned" /\ procLeft' = procLeft
       ELSE waitCh' = waitCh /\ cpc' = "goPrinter" /\ procLeft' = n
    /\ UNCHANGED <<rpc, ppc, outCh, outClosed, donePrint, pipe, procExited,
                   pipeClosed, sentLines, printedLines>>

\* go func() { for line := range outCh ... }()
GoPrinter ==
    /\ cpc = "goPrinter"
    /\ cpc' = "goReader"
    /\ ppc' = "range"
    /\ UNCHANGED <<rpc, outCh, outClosed, donePrint, waitCh, pipe, procLeft, procExited,
                   pipeClosed, sentLines, printedLines>>

\* go ReadOutput(outCh, stdout)
GoReader ==
    /\ cpc = "goReader"
    /\ cpc' = "Wait"
    /\ rpc' = "Scan"
    /\ UNCHANGED <<ppc, outCh, outClosed, donePrint, waitCh, pipe, procLeft, procExited,
                   pipeClosed, sentLines, printedLines>>

\* the command writes a line to its stdout
ProcWrite(line) ==
    /\ Started
    /\ procExited = "no"
    /\ ~pipeClosed
    /\ procLeft > 0
    /\ procLeft' = procLeft - 1
    /\ pipe' = Append(pipe, line)
    /\ UNCHANGED <<cpc, rpc, ppc, outCh, outClosed, donePrint, waitCh, procExited,
                   pipeClosed, sentLines, printedLines>>

\* the command exits, with status 0 or not
ProcExit(status) ==
    /\ Started
    /\ procExited = "no"
    /\ procExited' = status
    /\ UNCHANGED <<cpc, rpc, ppc, outCh, outClosed, donePrint, waitCh, pipe, procLeft,
                   pipeClosed, sentLines, printedLines>>

\* err = cmd.Wait(): returns once the command has exited, and closes the
\* read end of the stdout pipe
Wait ==
    /\ cpc = "Wait"
    /\ procExited # "no"
    /\ pipeClosed' = TRUE
    /\ cpc' = "donePrint"
    /\ UNCHANGED <<rpc, ppc, outCh, outClosed, donePrint, waitCh, pipe, procLeft,
                   procExited, sentLines, printedLines>>

\* <-donePrint
RecvDonePrint ==
    /\ cpc = "donePrint"
    /\ donePrint
    /\ cpc' = "send"
    /\ UNCHANGED <<rpc, ppc, outCh, outClosed, donePrint, waitCh, pipe, procLeft,
                   procExited, pipeClosed, sentLines, printedLines>>

\* if err != nil { wait <- fmt.Errorf(...); return }; wait <- nil
SendWait ==
    /\ cpc = "send"
    /\ waitCh' = Append(waitCh, IF procExited = "fail" THEN "err" ELSE "nil")
    /\ cpc' = "returned"
    /\ UNCHANGED <<rpc, ppc, outCh, outClosed, donePrint, pipe, procLeft, procExited,
                   pipeClosed, sentLines, printedLines>>

\* sc.Scan() returns a line, which stays at the head of pipe until it is
\* sent; a line that is blank after trimming is skipped.  A line the scanner
\* had buffered can still be returned after the pipe was closed.
ScanLine ==
    /\ rpc = "Scan"
    /\ pipe # <<>>
    /\ Head(pipe) # "long"
    /\ IF TrimSpace(Head(pipe)) # ""
       THEN rpc' = "send" /\ pipe' = pipe
       ELSE rpc' = rpc /\ pipe' = Tail(pipe)
    /\ UNCHANGED <<cpc, ppc, outCh, outClosed, donePrint, waitCh, procLeft, procExited,
                   pipeClosed, sentLines, printedLines>>

\* sc.Scan() returns false: end of file once the command has exited and its
\* output is read, a read error once cmd.Wait has closed the pipe, or a
\* line that does not fit the buffer
ScanEnd ==
    /\ rpc = "Scan"
    /\ \/ pipeClosed
       \/ procExited # "no" /\ pipe = <<>>
       \/ pipe # <<>> /\ Head(pipe) = "long"
    /\ rpc' = "close"
    /\ UNCHANGED <<cpc, ppc, outCh, outClosed, donePrint, waitCh, pipe, procLeft,
                   procExited, pipeClosed, sentLines, printedLines>>

\* output <- line: blocks while the buffer is full
SendLine ==
    /\ rpc = "send"
    /\ Len(outCh) < ChanCap
    /\ outCh' = Append(outCh, Head(pipe))
    /\ sentLines' = Append(sentLines, Head(pipe))
    /\ pipe' = Tail(pipe)
    /\ rpc' = "Scan"
    /\ UNCHANGED <<cpc, ppc, outClosed, donePrint, waitCh, procLeft, procExited,
                   pipeClosed, printedLines>>

\* the deferred function of ReadOutput: rc.Close(); close(output)
CloseOutput ==
    /\ rpc = "close"
    /\ pipeClosed' = TRUE
    /\ outClosed' = outClosed + 1
    /\ rpc' = "done"
    /\ UNCHANGED <<cpc, ppc, outCh, donePrint, waitCh, pipe, procLeft, procExited,
                   sentLines, printedLines>>

\* for line := range outCh: one iteration
PrintLine ==
    /\ ppc = "range"
    /\ outCh # <<>>
    /\ printedLines' = Append(printedLines, Head(outCh))
    /\ outCh' = Tail(outCh)
    /\ UNCHANGED <<cpc, rpc, ppc, outClosed, donePrint, waitCh, pipe, procLeft,
                   procExited, pipeClosed, sentLines>>

\* (mutant of RangeEnds) a loop that ends as soon as the channel is empty
RangeEndsWhenEmpty == outCh = <<>>

\* a range over a channel ends when the channel is closed and drained
RangeEnds == outCh = <<>> /\ outClosed > 0

\* the range loop ends; close(donePrint)
PrinterDone ==
    /\ ppc = "range"
    /\ RangeEnds
    /\ donePrint' = TRUE
    /\ ppc' = "done"
    /\ UNCHANGED <<cpc, rpc, outCh, outClosed, waitCh, pipe, procLeft, procExited,
                   pipeClosed, sentLines, printedLines>>

NextCmd ==
    \/ \E fails \in BOOLEAN : StdoutPipe(fails) /\ UNCHANGED <<regVars, onceVars, matVars, callVars, pureVars, pkgVars, liveVars>>
    \/ \E fails \in BOOLEAN, n \in 0..MaxLines :
          Start(fails, n) /\ UNCHANGED <<regVars, onceVars, matVars, callVars, pureVars, pkgVars, liveVars>>
    \/ GoPrinter /\ UNCHANGED <<regVars, onceVars, matVars, callVars, pureVars, pkgVars, liveVars>>
    \/ GoReader /\ UNCHANGED <<regVars, onceVars, matVars, callVars, pureVars, pkgVars, liveVars>>
    \/ \E line \in Lines : ProcWrite(line) /\ UNCHANGED <<regVars, onceVars, matVars, callVars, pureVars, pkgVars, liveVars>>
    \/ \E status \in {"ok", "fail"} :
          ProcExit(status) /\ UNCHANGED <<regVars, onceVars, matVars, callVars, pureVars, pkgVars, liveVars>>
    \/ Wait /\ UNCHANGED <<regVars, onceVars, matVars, callVars, pureVars, pkgVars, liveVars>>
    \/ RecvDonePrint /\ UNCHANGED <<regVars, onceVars, matVars, callVars, pureVars, pkgVars, liveVars>>
    \/ SendWait /\ UNCHANGED <<regVars, onceVars, matVars, callVars, pureVars, pkgVars, liveVars>>
    \/ ScanLine /\ UNCHANGED <<regVars, onceVars, matVars, callVars, pureVars, pkgVars, liveVars>>
    \/ ScanEnd /\ UNCHANGED <<regVars, onceVars, matVars, callVars, pureVars, pkgVars, liveVars>>
    \/ SendLine /\ UNCHANGED <<regVars, onceVars, matVars, callVars, pureVars, pkgVars, liveVars>>
    \/ CloseOutput /\ UNCHANGED <<regVars, onceVars, matVars, callVars, pureVars, pkgVars, liveVars>>
    \/ PrintLine /\ UNCHANGED <<regVars, onceVars, matVars, callVars, pureVars, pkgVars, liveVars>>
    \/ PrinterDone /\ UNCHANGED <<regVars, onceVars, matVars, callVars, pureVars, pkgVars, liveVars>>

SpecCmd == Init /\ [][NextCmd]_vars

\* C28: RunCmd sends at most once on wait, has sent exactly once when it has
\* returned, and sends nil exactly when the started command succeeded; when
\* the command was started the send happens only after ReadOutput has closed
\* outCh and the printer has received every line sent on it; outCh is never
\* closed twice
C28_OneSendAfterDrain ==
    /\ Len(waitCh) <= 1
    /\ cpc = "returned" <=> Len(waitCh) = 1
    /\ outClosed <= 1
    /\ (waitCh # <<>> /\ rpc # "off") =>
          /\ outClosed = 1
          /\ rpc = "done" /\ ppc = "done"
          /\ printedLines = sentLines
          /\ outCh = <<>>
    /\ waitCh # <<>> => (waitCh[1] = "nil" <=> procExited = "ok")

C28_Witness ==
    /\ cpc = "returned"
    /\ waitCh = <<"nil">>
    /\ sentLines = <<"a", "a">>
    /\ printedLines = sentLines
    /\ pipeClosed

(***************************************************************************)
(* SpecLive: goroutines calling the package functions concurrently, down   *)
(* to the lock steps of the TypeManager methods they reach (types.go:24-96)*)
(* and to the entity callback and the invoked function, which may call     *)
(* back into the registry.                                                 *)
(***************************************************************************)
\* the registry variables other than the maps and the lock
regCalls == <<pc, op, result, opsStarted, lastWrite, seen, atLock, slices, returned>>

\* the calls a goroutine makes
LiveCalls == {"RegisterType", "DeleteType", "RegisterFunction", "InitializeStructure",
              "CallFunction"}
\* the calls a callback or an invoked function makes
BodyCalls == {"RegisterType", "GetTypeOf"}

\* goroutine p holds the registry lock, or the writer mutex on the way to it
Holds(p) == muW = p \/ p \in muReaders

\* where goroutine p goes on when the function it is in returns
Ret(p) == IF retTo[p] = <<>> THEN "idle" ELSE Head(retTo[p])
RetRest(p) == IF retTo[p] = <<>> THEN <<>> ELSE Tail(retTo[p])

\* goroutine p returns from the function it is in
Return(p) ==
    /\ where' = [where EXCEPT ![p] = Ret(p)]
    /\ retTo' = [retTo EXCEPT ![p] = RetRest(p)]

\* goroutine p calls a TypeManager method, to go on at rets afterwards
Enter(p, method, rets) ==
    /\ where' = [where EXCEPT ![p] = IF method \in {"GetType", "GetFunc"} THEN "RLock" ELSE "Lock"]
    /\ doing' = [doing EXCEPT ![p] = method]
    /\ retTo' = [retTo EXCEPT ![p] = rets \o retTo[p]]

\* a goroutine calls RegisterType(typedNil), DeleteType, RegisterFunction,
\* InitializeStructure or CallFunction; each starts with a TypeManager method
BeginCall(p, c) ==
    /\ where[p] = "idle"
    /\ callsMade < MaxOps
    /\ callsMade' = callsMade + 1
    /\ CASE c = "RegisterType" -> Enter(p, "GetType", <<"RegisterType:73">>)
         [] c = "DeleteType" -> Enter(p, "DeleteType", <<>>)
         [] c = "RegisterFunction" -> Enter(p, "RegisterFunc", <<>>)
         [] c = "InitializeStructure" -> Enter(p, "GetType", <<"InitializeStructure:127">>)
         [] c = "CallFunction" -> Enter(p, "GetFunc", <<"CallFunction:429">>)
    /\ UNCHANGED <<found, typeRegistry, functionRegistry, muW, muPending, muReaders>>

\* tm.mu.RLock()
TmRLock(p) ==
    /\ where[p] = "RLock"
    /\ MuRLock(p)
    /\ where' = [where EXCEPT ![p] = "read"]
    /\ UNCHANGED <<doing, retTo, found, callsMade, typeRegistry, functionRegistry>>

\* t, ok := tm.typeRegistry[name] or f, ok := tm.functionRegistry[name],
\* then the deferred tm.mu.RUnlock() and the return
TmRead(p) ==
    /\ where[p] = "read"
    /\ found' = [found EXCEPT ![p] = IF doing[p] = "GetType"
                                     THEN MapRead(typeRegistry, "pkg.T").ok
                                     ELSE MapRead(functionRegistry, "f").ok]
    /\ MuRUnlock(p)
    /\ Return(p)
    /\ UNCHANGED <<doing, callsMade, typeRegistry, functionRegistry>>

\* tm.mu.Lock(): the writer mutex is taken and the writer announced
TmLock(p) ==
    /\ where[p] = "Lock"
    /\ LockAnnounce(p)
    /\ where' = [where EXCEPT ![p] = "LockWait"]
    /\ UNCHANGED <<doing, retTo, found, callsMade, typeRegistry, functionRegistry>>

\* tm.mu.Lock() returns once the active readers are gone
TmLockAcquire(p) ==
    /\ where[p] = "LockWait"
    /\ LockDrained
    /\ where' = [where EXCEPT ![p] = "store"]
    /\ UNCHANGED <<doing, retTo, found, callsMade, typeRegistry, functionRegistry,
                   muW, muPending, muReaders>>

\* the map assignment or delete of RegisterType, DeleteType or RegisterFunc,
\* then the deferred tm.mu.Unlock() and the return
TmWrite(p) ==
    /\ where[p] = "store"
    /\ CASE doing[p] = "RegisterType" ->
               /\ typeRegistry' = MapAssign(typeRegistry, "pkg.T", "T")
               /\ UNCHANGED functionRegistry
         [] doing[p] = "DeleteType" ->
               /\ typeRegistry' = MapDelete(typeRegistry, "pkg.T")
               /\ UNCHANGED functionRegistry
         [] doing[p] = "RegisterFunc" ->
               /\ functionRegistry' = MapAssign(functionRegistry, "f", "fn1")
               /\ UNCHANGED typeRegistry
    /\ MuUnlock(p)
    /\ Return(p)
    /\ UNCHANGED <<doing, found, callsMade>>

\* RegisterType: if _, ok := GetType(fq); !ok { RegisterType(fq, t) }
RegisterTypeIfAbsent(p) ==
    /\ where[p] = "RegisterType:73"
    /\ IF found[p]
       THEN Return(p) /\ UNCHANGED doing
       ELSE Enter(p, "RegisterType", <<>>)
    /\ found' = [found EXCEPT ![p] = FALSE]
    /\ UNCHANGED <<callsMade, typeRegistry, functionRegistry, muW, muPending, muReaders>>

\* InitializeStructure: if _, ok := GetType(tn); ok { MakeInstance(...) },
\* which looks the type up again in initializeStructureValue; else return
InitializeStructureFound(p) ==
    /\ where[p] = "InitializeStructure:127"
    /\ IF found[p]
       THEN Enter(p, "GetType", <<"MakeInstance:113">>)
       ELSE Return(p) /\ UNCHANGED doing
    /\ found' = [found EXCEPT ![p] = FALSE]
    /\ UNCHANGED <<callsMade, typeRegistry, functionRegistry, muW, muPending, muReaders>>

\* MakeInstance: setEntity(value.Interface()), then back in InitializeStructure
MakeInstanceSetEntity(p) ==
    /\ where[p] = "MakeInstance:113"
    /\ where' = [where EXCEPT ![p] = "body"]
    /\ retTo' = [retTo EXCEPT ![p] = <<"InitializeStructure:129">> \o retTo[p]]
    /\ UNCHANGED <<doing, found, callsMade, typeRegistry, functionRegistry,
                   muW, muPending, muReaders>>

\* InitializeStructure: setEntity(value.Interface()), then return value, nil
InitializeStructureSetEntity(p) ==
    /\ where[p] = "InitializeStructure:129"
    /\ where' = [where EXCEPT ![p] = "body"]
    /\ UNCHANGED <<doing, retTo, found, callsMade, typeRegistry, functionRegistry,
                   muW, muPending, muReaders>>

\* CallFunction: fn == nil returns the error; else fv.Call(in), then return
CallFunctionCall(p) ==
    /\ where[p] = "CallFunction:429"
    /\ IF found[p]
       THEN where' = [where EXCEPT ![p] = "body"] /\ UNCHANGED retTo
       ELSE Return(p)
    /\ found' = [found EXCEPT ![p] = FALSE]
    /\ UNCHANGED <<doing, callsMade, typeRegistry, functionRegistry,
                   muW, muPending, muReaders>>

\* the callback or the invoked function registers or looks up a type
BodyCall(p, c) ==
    /\ where[p] = "body"
    /\ IF c = "RegisterType"
       THEN Enter(p, "GetType", <<"RegisterType:73", "bodyEnd">>)
       ELSE Enter(p, "GetType", <<"bodyEnd">>)
    /\ UNCHANGED <<found, callsMade, typeRegistry, functionRegistry, muW, muPending, muReaders>>

\* the callback or the invoked function returns
BodyReturn(p) ==
    /\ where[p] \in {"body", "bodyEnd"}
    /\ Return(p)
    /\ found' = [found EXCEPT ![p] = FALSE]
    /\ UNCHANGED <<doing, callsMade, typeRegistry, functionRegistry,
                   muW, muPending, muReaders>>

\* a step of goroutine p inside a call
Running(p) ==
    \/ TmRLock(p) /\ UNCHANGED <<regCalls, onceVars, matVars, callVars, pureVars, pkgVars, cmdVars>>
    \/ TmRead(p) /\ UNCHANGED <<regCalls, onceVars, matVars, callVars, pureVars, pkgVars, cmdVars>>
    \/ TmLock(p) /\ UNCHANGED <<regCalls, onceVars, matVars, callVars, pureVars, pkgVars, cmdVars>>
    \/ TmLockAcquire(p) /\ UNCHANGED <<regCalls, onceVars, matVars, callVars, pureVars, pkgVars, cmdVars>>
    \/ TmWrite(p) /\ UNCHANGED <<regCalls, onceVars, matVars, callVars, pureVars, pkgVars, cmdVars>>
    \/ RegisterTypeIfAbsent(p) /\ UNCHANGED <<regCalls, onceVars, matVars, callVars, pureVars, pkgVars, cmdVars>>
    \/ InitializeStructureFound(p) /\ UNCHANGED <<regCalls, onceVars, matVars, callVars, pureVars, pkgVars, cmdVars>>
    \/ MakeInstanceSetEntity(p) /\ UNCHANGED <<regCalls, onceVars, matVars, callVars, pureVars, pkgVars, cmdVars>>
    \/ InitializeStructureSetEntity(p) /\ UNCHANGED <<regCalls, onceVars, matVars, callVars, pureVars, pkgVars, cmdVars>>
    \/ CallFunctionCall(p) /\ UNCHANGED <<regCalls, onceVars, matVars, callVars, pureVars, pkgVars, cmdVars>>
    \/ \E c \in BodyCalls : BodyCall(p, c) /\ UNCHANGED <<regCalls, onceVars, matVars, callVars, pureVars, pkgVars, cmdVars>>
    \/ BodyReturn(p) /\ UNCHANGED <<regCalls, onceVars, matVars, callVars, pureVars, pkgVars, cmdVars>>

NextLive ==
    \/ \E p \in Procs, c \in LiveCalls :
          BeginCall(p, c) /\ UNCHANGED <<regCalls, onceVars, matVars, callVars, pureVars, pkgVars, cmdVars>>
    \/ \E p \in Procs : Running(p)

\* fair scheduling: a goroutine that can take a step eventually takes one
SpecLive == Init /\ [][NextLive]_vars /\ \A p \in Procs : WF_vars(Running(p))

\* C29: a goroutine holds the registry lock only inside a TypeManager
\* method, between acquiring and the deferred release, so never when it
\* returns, when it starts to acquire, or in a callback or invoked function;
\* and under fair scheduling every goroutine that is in a call returns
C29_DeadlockFree ==
    /\ [](\A p \in Procs : Holds(p) => where[p] \in {"read", "LockWait", "store"})
    /\ \A p \in Procs : (where[p] # "idle") ~> (where[p] = "idle")

\* a goroutine registers a type from inside an invoked function or a
\* callback and, having announced itself as writer, waits for a reader
C29_Witness ==
    \E p, q \in Procs :
        /\ where[p] = "LockWait"
        /\ "bodyEnd" \in {retTo[p][i] : i \in DOMAIN retTo[p]}
        /\ q \in muReaders

=============================================================================
